---------------------------- MODULE Spec2Model ----------------------------
(***************************************************************************)
(* a2a-copilot: the session registry (SessionManager), the task bridge     *)
(* (CopilotExecutor), the tool evidence recorder (McpEvidenceHooks) and    *)
(* the event publisher, as one state machine.                              *)
(*                                                                         *)
(* Granularity: JavaScript runs a callback to completion, so one action is *)
(* the code between two real suspensions (an SDK call that is awaited, a   *)
(* timer, a session event).  An await on an already settled promise only   *)
(* costs a microtask and is folded into the action that reaches it.        *)
(*                                                                         *)
(* Strings are sequences of word tokens: includes(w) is membership of the  *)
(* token, toLowerCase maps each token to its lower-case form.              *)
(***************************************************************************)
EXTENDS Integers, Sequences, FiniteSets, TLC

\* ------------------------------------------------------------------ bounds

\* Session events delivered to one execution (deltas, tool events, hooks ...).
MaxEvents == 1
\* session.idle / session.error events delivered to one execution.
MaxSignals == 1
\* cancelTask calls per task.
MaxCancels == 1
\* The clock (Date.now()) runs over 0..MaxTime.
MaxTime == 2
\* Sessions the SDK client creates in one run.
MaxSessions == 3
\* SessionManager / McpEvidenceHooks instances (one per successful initialize()).
MaxMgrs == 1
\* Tool invocations the SDK makes.
MaxInvocations == 2
\* CopilotClient objects constructed by the callers of initialize() in
\* SpecInitialize.
MaxInits == 2

\* ------------------------------------------------------------------ inputs

Procs == {"t1", "t2"}
\* The callers of the registry API in SpecRegistry.
Callers == {"t1", "t2"}
\* The tasks executed in Spec.
ExecTasks == {"t1"}
Contexts == {"c1"}
Tools == {"search"}
\* config.session.ttl, in clock units.
TtlValues == {1, 2}
Mgrs == 1..(IF MaxInits > MaxMgrs THEN MaxInits ELSE MaxMgrs)
Sids == 1..MaxSessions
Invs == 1..MaxInvocations

VARIABLES
    config,          \* the resolved settings object (read-only after Init)
    now,             \* Date.now()
    \* ---- SDK sessions
    nSessions,       \* sessions created so far; their ids are 1..nSessions
    sessCtx,         \* sid -> contextId the session was created for
    sessMgr,         \* sid -> manager (and hooks instance) that created it
    destroyCalls,    \* sid -> number of session.destroy() invocations
    \* ---- SessionManager instances
    managersCreated, \* managers constructed so far; their ids are 1..managersCreated
    contextSessions, \* mgr -> Map contextId -> SessionEntry, in insertion order
    taskSessions,    \* mgr -> Map taskId -> sessionId (0: absent)
    cleanupTimer,    \* mgr -> the cleanupTimer field is set
    activeTimers,    \* mgr -> setInterval timers started and not cleared
    \* ---- callers and their pending calls
    call,            \* proc -> the call in flight and where it is suspended
    ret,             \* proc -> result of the proc's last finished call
    sd,              \* the shutdown() call in flight
    \* ---- CopilotExecutor fields
    initialized,     \* this.initialized
    client,          \* this.client is set
    clientsCreated,  \* CopilotClient objects constructed so far
    sessionManager,  \* this.sessionManager (0: null)
    mcpHooks,        \* this.mcpHooks (0: null)
    mgrClient,       \* mgr -> the client the manager was constructed with is usable
    boot,            \* the server's own initialize() call (createA2AServer)
    \* ---- McpEvidenceHooks instances (same ids as the managers they are passed to)
    hookCtx,         \* hooks -> the bound McpHooksContext
    activeToolCalls, \* hooks -> Map (sessionId, toolName) -> record
    toolCallIds,     \* randomUUID() calls of the hooks so far
    toolInv,         \* the SDK's tool invocations: what their hooks were given and did
    destroyOutcome,  \* how the session.destroy() awaited last by the manager settled
    \* ---- one execute() per task
    req,             \* task -> the RequestContext it was called with
    ex,              \* task -> the locals of its execute()
    bus,             \* task -> what was published on its ExecutionEventBus, in order
    uuids,           \* task -> uuidv4() calls made for artifacts of its bus
    nEvents,         \* task -> session events and hook calls delivered to it
    nCancels,        \* task -> cancelTask calls
    signals          \* task -> the completion signals that arrived, in order

registryVars == <<nSessions, sessCtx, sessMgr, destroyCalls, managersCreated,
                  contextSessions, taskSessions, cleanupTimer, activeTimers>>
executorVars == <<initialized, client, clientsCreated, sessionManager, mcpHooks, mgrClient,
                  boot>>
hookVars == <<hookCtx, activeToolCalls, toolCallIds>>
taskVars == <<req, ex, bus, uuids, nEvents, nCancels, signals>>
vars == <<config, now, registryVars, call, ret, sd, executorVars, hookVars, toolInv,
         destroyOutcome, taskVars>>

\* ------------------------------------------------------------ Map helpers

MapHas(m, k) == \E i \in 1..Len(m) : m[i].contextId = k
MapGet(m, k) == m[CHOOSE i \in 1..Len(m) : m[i].contextId = k]
\* Map.set: an existing key keeps its position, a new key goes last.
MapSet(m, e) ==
    IF MapHas(m, e.contextId)
    THEN [i \in 1..Len(m) |-> IF m[i].contextId = e.contextId THEN e ELSE m[i]]
    ELSE Append(m, e)
MapDelete(m, k) == SelectSeq(m, LAMBDA e : e.contextId # k)
MapKeys(m) == {m[i].contextId : i \in 1..Len(m)}

NoCall == [op |-> "none", st |-> "none", ctx |-> "", mgr |-> 0, victim |-> 0]
NoRet == [kind |-> "none", sessionId |-> 0, isNew |-> FALSE]
NoSd == [st |-> "idle", mgr |-> 0, cur |-> "", level |-> "none"]

\* getOrCreate calls in flight: each creates at most one session.
PendingCreates == Cardinality({p \in Procs : call[p].st \in {"destroying", "creating"}
                                             /\ call[p].op # "destroySession"})
CanCreate == nSessions + PendingCreates < MaxSessions

\* session.destroy() is invoked on sid.
InvokeDestroy(dc, sid) == [dc EXCEPT ![sid] = @ + 1]

\* ------------------------------------------------- SessionManager (registry)

Ttl == config.ttl
Entry(c, sid, t) == [contextId |-> c, sessionId |-> sid, createdAt |-> t, lastUsed |-> t]

\* getOrCreate, line 148: the entry is handed back while its age since creation
\* is below the TTL.
WithinTtl(e) == now - e.createdAt < Ttl

\* getOrCreate, lines 143-157: which way the call goes for context c on manager m.
GocBranch(m, c) ==
    IF config.reuseByContext /\ MapHas(contextSessions[m], c)
    THEN IF WithinTtl(MapGet(contextSessions[m], c)) THEN "reuse" ELSE "expired"
    ELSE "create"

\* Variant: the reuse also restamps createdAt.
TouchRestamping(e) == [e EXCEPT !.lastUsed = now, !.createdAt = now]

\* getOrCreate, line 149: existing.lastUsed = Date.now().
Touch(e) == [e EXCEPT !.lastUsed = now]

\* The map after the synchronous part of getOrCreate(c).
GocMap(m, c) ==
    IF GocBranch(m, c) = "reuse"
    THEN [contextSessions EXCEPT ![m] = MapSet(@, Touch(MapGet(@, c)))]
    ELSE contextSessions

\* destroySession, lines 203-206, entered from getOrCreate line 155: destroy() is
\* invoked on the entry's session.
GocDestroyCalls(m, c) ==
    IF GocBranch(m, c) = "expired"
    THEN InvokeDestroy(destroyCalls, MapGet(contextSessions[m], c).sessionId)
    ELSE destroyCalls

\* Where getOrCreate(c) suspends (st = "none": it returned the reused entry).
GocSuspend(op, m, c) ==
    LET b == GocBranch(m, c) IN
    IF b = "reuse" THEN NoCall
    ELSE [op |-> op, st |-> IF b = "expired" THEN "destroying" ELSE "creating",
          ctx |-> c, mgr |-> m,
          victim |-> IF b = "expired" THEN MapGet(contextSessions[m], c).sessionId ELSE 0]

\* getOrCreate, lines 166-175: the new entry is stored under its contextId.
StoreEntry(m, c, sid) == [contextSessions EXCEPT ![m] = MapSet(@, Entry(c, sid, now))]

\* A caller invokes sessionManager.getOrCreate(c).
CallGetOrCreate(p, m, c) ==
    /\ call[p] = NoCall
    /\ m \in 1..managersCreated
    /\ CanCreate
    /\ contextSessions' = GocMap(m, c)
    /\ destroyCalls' = GocDestroyCalls(m, c)
    /\ call' = [call EXCEPT ![p] = GocSuspend("getOrCreate", m, c)]
    /\ ret' = [ret EXCEPT ![p] =
                 IF GocBranch(m, c) = "reuse"
                 THEN [kind |-> "value", sessionId |-> MapGet(contextSessions[m], c).sessionId,
                       isNew |-> FALSE]
                 ELSE NoRet]
    /\ UNCHANGED <<config, toolInv, destroyOutcome, now, nSessions, sessCtx, sessMgr, managersCreated,
                   taskSessions, cleanupTimer, activeTimers, sd,
                   executorVars, hookVars, taskVars>>

\* Variant: destroySession without the early return of line 203: for an
\* unregistered context it still suspends before deleting the key.
CallDestroySessionUnchecked(p, m, c) ==
    /\ call[p] = NoCall
    /\ m \in 1..managersCreated
    /\ IF MapHas(contextSessions[m], c)
       THEN /\ destroyCalls' = InvokeDestroy(destroyCalls, MapGet(contextSessions[m], c).sessionId)
            /\ call' = [call EXCEPT ![p] =
                          [op |-> "destroySession", st |-> "destroying", ctx |-> c, mgr |-> m,
                           victim |-> MapGet(contextSessions[m], c).sessionId]]
       ELSE /\ UNCHANGED destroyCalls
            /\ call' = [call EXCEPT ![p] =
                          [op |-> "destroySession", st |-> "destroying", ctx |-> c, mgr |-> m,
                           victim |-> 0]]
    /\ ret' = [ret EXCEPT ![p] = NoRet]
    /\ UNCHANGED <<config, toolInv, destroyOutcome, now, nSessions, sessCtx, sessMgr, managersCreated,
                   contextSessions, taskSessions, cleanupTimer, activeTimers, sd,
                   executorVars, hookVars, taskVars>>

\* A caller invokes sessionManager.destroySession(c), lines 202-211.
CallDestroySession(p, m, c) ==
    /\ call[p] = NoCall
    /\ m \in 1..managersCreated
    /\ IF MapHas(contextSessions[m], c)
       THEN /\ destroyCalls' = InvokeDestroy(destroyCalls, MapGet(contextSessions[m], c).sessionId)
            /\ call' = [call EXCEPT ![p] =
                          [op |-> "destroySession", st |-> "destroying", ctx |-> c, mgr |-> m,
                           victim |-> MapGet(contextSessions[m], c).sessionId]]
            /\ ret' = [ret EXCEPT ![p] = NoRet]
       ELSE /\ UNCHANGED <<destroyCalls, call>>
            /\ ret' = [ret EXCEPT ![p] = [NoRet EXCEPT !.kind = "void"]]
    /\ UNCHANGED <<config, toolInv, destroyOutcome, now, nSessions, sessCtx, sessMgr, managersCreated,
                   contextSessions, taskSessions, cleanupTimer, activeTimers, sd,
                   executorVars, hookVars, taskVars>>

\* How an awaited session.destroy() settled.
Settled(ok) == IF ok THEN "resolved" ELSE "rejected"

\* Variant: a rejected destroy() leaves destroySession (and the getOrCreate
\* that awaits it) with the exception, before the key is deleted.
DestroyDonePropagating(p, ok) ==
    /\ call[p].st = "destroying"
    /\ destroyOutcome' = Settled(ok)
    /\ IF ok
       THEN /\ contextSessions' = [contextSessions EXCEPT ![call[p].mgr] =
                                     MapDelete(@, call[p].ctx)]
            /\ IF call[p].op = "destroySession"
               THEN /\ call' = [call EXCEPT ![p] = NoCall]
                    /\ ret' = [ret EXCEPT ![p] = [NoRet EXCEPT !.kind = "void"]]
               ELSE /\ call' = [call EXCEPT ![p].st = "creating"]
                    /\ UNCHANGED ret
       ELSE /\ UNCHANGED contextSessions
            /\ call' = [call EXCEPT ![p] = NoCall]
            /\ ret' = [ret EXCEPT ![p] = [NoRet EXCEPT !.kind = "throw"]]
    /\ UNCHANGED <<config, toolInv, now, nSessions, sessCtx, sessMgr, destroyCalls, managersCreated,
                   taskSessions, cleanupTimer, activeTimers, sd,
                   executorVars, hookVars, taskVars>>

\* destroySession, lines 205-210: the awaited destroy() settles (ok: resolved,
\* ~ok: rejected and logged), the key is deleted.  Inside getOrCreate the call goes
\* on to createSession (lines 160-163).
DestroyDone(p, ok) ==
    /\ call[p].st = "destroying"
    /\ destroyOutcome' = Settled(ok)
    /\ contextSessions' = [contextSessions EXCEPT ![call[p].mgr] = MapDelete(@, call[p].ctx)]
    /\ IF call[p].op = "destroySession"
       THEN /\ call' = [call EXCEPT ![p] = NoCall]
            /\ ret' = [ret EXCEPT ![p] = [NoRet EXCEPT !.kind = "void"]]
       ELSE /\ call' = [call EXCEPT ![p].st = "creating"]
            /\ UNCHANGED ret
    /\ UNCHANGED <<config, toolInv, now, nSessions, sessCtx, sessMgr, destroyCalls, managersCreated,
                   taskSessions, cleanupTimer, activeTimers, sd,
                   executorVars, hookVars, taskVars>>

\* getOrCreate, lines 163-178: createSession settles for a direct caller.
GocCreateDone(p, ok) ==
    /\ call[p].op = "getOrCreate"
    /\ call[p].st = "creating"
    /\ IF ok
       THEN /\ nSessions' = nSessions + 1
            /\ sessCtx' = [sessCtx EXCEPT ![nSessions + 1] = call[p].ctx]
            /\ sessMgr' = [sessMgr EXCEPT ![nSessions + 1] = call[p].mgr]
            /\ contextSessions' = StoreEntry(call[p].mgr, call[p].ctx, nSessions + 1)
            /\ ret' = [ret EXCEPT ![p] =
                         [kind |-> "value", sessionId |-> nSessions + 1, isNew |-> TRUE]]
       ELSE /\ UNCHANGED <<nSessions, sessCtx, sessMgr, contextSessions>>
            /\ ret' = [ret EXCEPT ![p] = [NoRet EXCEPT !.kind = "throw"]]
    /\ call' = [call EXCEPT ![p] = NoCall]
    /\ UNCHANGED <<config, toolInv, destroyOutcome, now, destroyCalls, managersCreated, taskSessions,
                   cleanupTimer, activeTimers, sd,
                   executorVars, hookVars, taskVars>>

\* startCleanup, lines 214-229 (config.session.cleanupInterval > 0).
StartCleanup(m) ==
    /\ m \in 1..managersCreated
    /\ ~cleanupTimer[m]
    /\ cleanupTimer' = [cleanupTimer EXCEPT ![m] = TRUE]
    /\ activeTimers' = [activeTimers EXCEPT ![m] = @ + 1]
    /\ UNCHANGED <<config, toolInv, destroyOutcome, now, nSessions, sessCtx, sessMgr, destroyCalls, managersCreated,
                   contextSessions, taskSessions, call, ret, sd,
                   executorVars, hookVars, taskVars>>

\* Variant: the sweep evicts an entry already when its idle time equals the TTL.
SweepExpiredAtTtl(e) == now - e.lastUsed >= Ttl

\* The sweep, line 222: idle time since lastUsed above the TTL.
SweepExpired(e) == now - e.lastUsed > Ttl

\* Variant: a tick that finds an expired entry destroys the expired ones and
\* clears the whole map.
CleanupTickClearing(m) ==
    /\ activeTimers[m] > 0
    /\ \E i \in 1..Len(contextSessions[m]) : SweepExpired(contextSessions[m][i])
    /\ destroyCalls' =
         [s \in Sids |->
            IF \E i \in 1..Len(contextSessions[m]) :
                  /\ contextSessions[m][i].sessionId = s
                  /\ SweepExpired(contextSessions[m][i])
            THEN destroyCalls[s] + 1 ELSE destroyCalls[s]]
    /\ contextSessions' = [contextSessions EXCEPT ![m] = <<>>]
    /\ UNCHANGED <<config, toolInv, destroyOutcome, now, nSessions, sessCtx, sessMgr, managersCreated,
                   taskSessions, cleanupTimer, activeTimers, call, ret, sd,
                   executorVars, hookVars, taskVars>>

\* One tick of the setInterval callback, lines 218-228.
CleanupTick(m) ==
    /\ activeTimers[m] > 0
    /\ \E i \in 1..Len(contextSessions[m]) : SweepExpired(contextSessions[m][i])
    /\ destroyCalls' =
         [s \in Sids |->
            IF \E i \in 1..Len(contextSessions[m]) :
                  /\ contextSessions[m][i].sessionId = s
                  /\ SweepExpired(contextSessions[m][i])
            THEN destroyCalls[s] + 1 ELSE destroyCalls[s]]
    /\ contextSessions' = [contextSessions EXCEPT ![m] =
                             SelectSeq(@, LAMBDA e : ~SweepExpired(e))]
    /\ UNCHANGED <<config, toolInv, destroyOutcome, now, nSessions, sessCtx, sessMgr, managersCreated,
                   taskSessions, cleanupTimer, activeTimers, call, ret, sd,
                   executorVars, hookVars, taskVars>>

\* SessionManager.shutdown, lines 233-236: the timer is cleared.
ClearedTimers(m) == [activeTimers EXCEPT ![m] = IF cleanupTimer[m] THEN @ - 1 ELSE @]

\* Variant: the loop drops the entry it reaches without invoking destroy().
SdNextEvicting(cs, dc, m, level) ==
    IF Len(cs) > 0
    THEN [sd |-> [st |-> "destroying", mgr |-> m, cur |-> cs[1].contextId, level |-> level],
          dc |-> dc]
    ELSE [sd |-> [NoSd EXCEPT !.st = "returned", !.mgr = m, !.level = level], dc |-> dc]

\* SessionManager.shutdown, lines 237-239: the loop reaches the first live entry of
\* map cs and invokes destroy() on it, or ends.
SdNext(cs, dc, m, level) ==
    IF Len(cs) > 0
    THEN [sd |-> [st |-> "destroying", mgr |-> m, cur |-> cs[1].contextId, level |-> level],
          dc |-> InvokeDestroy(dc, cs[1].sessionId)]
    ELSE [sd |-> [NoSd EXCEPT !.st = "returned", !.mgr = m, !.level = level], dc |-> dc]

\* A caller invokes sessionManager.shutdown().
CallShutdown(m) ==
    /\ sd.st = "idle"
    /\ m \in 1..managersCreated
    /\ cleanupTimer' = [cleanupTimer EXCEPT ![m] = FALSE]
    /\ activeTimers' = ClearedTimers(m)
    /\ LET n == SdNext(contextSessions[m], destroyCalls, m, "manager") IN
         /\ sd' = IF n.sd.st = "returned" THEN NoSd ELSE n.sd
         /\ destroyCalls' = n.dc
    /\ UNCHANGED <<config, toolInv, destroyOutcome, now, nSessions, sessCtx, sessMgr, managersCreated,
                   contextSessions, taskSessions, call, ret,
                   executorVars, hookVars, taskVars>>

\* SessionManager.shutdown, lines 239-242: the awaited destroy() settles, the key is
\* deleted and the loop goes on.
ShutdownDestroyDone(ok) ==
    /\ sd.st = "destroying"
    /\ sd.level = "manager"
    /\ destroyOutcome' = Settled(ok)
    /\ LET cs == MapDelete(contextSessions[sd.mgr], sd.cur)
           n == SdNext(cs, destroyCalls, sd.mgr, "manager") IN
         /\ contextSessions' = [contextSessions EXCEPT ![sd.mgr] = cs]
         /\ sd' = IF n.sd.st = "returned" THEN NoSd ELSE n.sd
         /\ destroyCalls' = n.dc
    /\ UNCHANGED <<config, toolInv, now, nSessions, sessCtx, sessMgr, managersCreated,
                   taskSessions, cleanupTimer, activeTimers, call, ret,
                   executorVars, hookVars, taskVars>>

\* Time passes.
Tick ==
    /\ now < MaxTime
    /\ now' = now + 1
    /\ UNCHANGED <<config, toolInv, destroyOutcome, registryVars, call, ret, sd, executorVars, hookVars, taskVars>>

\* ------------------------------------------------------------ strings

MsgSessionError == <<"Session", "error">>
MsgRequestTimeout == <<"request", "timeout">>
MsgSdkTimeout == <<"Timeout", "waiting", "for", "session.idle">>
MsgConnRefused == <<"connect", "ECONNREFUSED">>
MsgEmpty == <<>>
\* Reading a property of null (this.sessionManager!, this.client).
MsgTypeError == <<"Cannot", "read", "properties", "of", "null">>
\* executor.ts line 405: `Prompt timeout after ${timeoutMs}ms`.
MsgPromptTimeout == <<"Prompt", "timeout", "after">>
\* Messages of errors raised by the SDK.
Msgs == {MsgRequestTimeout, MsgSdkTimeout, MsgConnRefused, MsgEmpty}

Includes(msg, w) == \E i \in 1..Len(msg) : msg[i] = w
LowerTok(w) ==
    CASE w = "Timeout" -> "timeout"
      [] w = "Session" -> "session"
      [] w = "Prompt" -> "prompt"
      [] w = "Cannot" -> "cannot"
      [] w = "ECONNREFUSED" -> "econnrefused"
      [] OTHER -> w
ToLowerCase(msg) == [i \in 1..Len(msg) |-> LowerTok(msg[i])]

\* executor.ts lines 399, 423, 424.
TruncationNotice == <<"*Response truncated: processing time limit reached.*">>
TimeoutText == <<"The request timed out before a response was produced.">>
NoResponseText == <<"No text response was returned.">>

\* ------------------------------------------------------- Event Publisher

NoEvent == [kind |-> "none", taskId |-> "", contextId |-> "", state |-> "", final |-> FALSE,
            message |-> <<>>, append |-> FALSE, lastChunk |-> FALSE, artifactId |-> <<>>,
            name |-> "", text |-> <<>>,
            data |-> [toolCallId |-> 0, durationMs |-> 0,
                      arguments |-> [t |-> "undef", s |-> "", n |-> 0, note |-> 0, f |-> <<>>],
                      result |-> [t |-> "undef", s |-> "", n |-> 0, note |-> 0, f |-> <<>>]]]

\* executor.ts lines 219-225: the initial Task event.
SubmittedEvent(taskId, contextId) ==
    [NoEvent EXCEPT !.kind = "task", !.taskId = taskId, !.contextId = contextId,
                    !.state = "submitted"]

\* publishStatus: the message is attached only when messageText is truthy.
StatusEvent(taskId, contextId, state, messageText, final) ==
    [NoEvent EXCEPT !.kind = "status-update", !.taskId = taskId, !.contextId = contextId,
                    !.state = state, !.message = messageText, !.final = final]

ArtifactEvent(taskId, contextId, append, lastChunk, artifactId, name, text) ==
    [NoEvent EXCEPT !.kind = "artifact-update", !.taskId = taskId, !.contextId = contextId,
                    !.append = append, !.lastChunk = lastChunk, !.artifactId = artifactId,
                    !.name = name, !.text = text]

\* The k-th uuidv4() drawn for bus b.
Uuid(b, k) == <<b, k>>

\* Variant: the complete artifact is published as an appended chunk.
FinalArtifactAppending(taskId, contextId, text, uuid) ==
    ArtifactEvent(taskId, contextId, TRUE, TRUE, <<"response">> \o uuid, "response", text)

\* publishFinalArtifact: its own fresh id.
FinalArtifact(taskId, contextId, text, uuid) ==
    ArtifactEvent(taskId, contextId, FALSE, TRUE, <<"response">> \o uuid, "response", text)
\* Variant: each chunk is published under an identifier of its own.
StreamingChunkOwnId(taskId, contextId, artifactId, chunkText) ==
    ArtifactEvent(taskId, contextId, TRUE, FALSE, artifactId \o <<"chunk">>, "response", chunkText)
\* publishStreamingChunk.
StreamingChunk(taskId, contextId, artifactId, chunkText) ==
    ArtifactEvent(taskId, contextId, TRUE, FALSE, artifactId, "response", chunkText)
\* Variant: the marker replaces the artifact instead of being appended to it.
LastChunkMarkerReplacing(taskId, contextId, artifactId, fullText) ==
    ArtifactEvent(taskId, contextId, FALSE, TRUE, artifactId, "response", fullText)
\* publishLastChunkMarker.
LastChunkMarker(taskId, contextId, artifactId, fullText) ==
    ArtifactEvent(taskId, contextId, TRUE, TRUE, artifactId, "response", fullText)
\* Variant: the data trace artifact is published as an appended piece.
TraceArtifactAppended(taskId, contextId, traceKey, tool, data, uuid) ==
    [ArtifactEvent(taskId, contextId, TRUE, TRUE, <<traceKey>> \o uuid, traceKey, <<tool>>)
       EXCEPT !.data = data]
\* publishTraceArtifact (DataPart) and publishThoughtArtifact (TextPart).
TraceArtifact(taskId, contextId, traceKey, tool, data, uuid) ==
    [ArtifactEvent(taskId, contextId, FALSE, TRUE, <<traceKey>> \o uuid, traceKey, <<tool>>)
       EXCEPT !.data = data]
ThoughtArtifact(taskId, contextId, traceKey, text, uuid) ==
    ArtifactEvent(taskId, contextId, FALSE, TRUE, <<traceKey>> \o uuid, traceKey, text)

\* bus.finished().
FinishedMark == [NoEvent EXCEPT !.kind = "finished"]

\* ------------------------------------------------------- CopilotExecutor

NoReq == [contextId |-> "", hasTask |-> FALSE]
NoEx == [sessionId |-> 0, accumulatedText |-> <<>>, timedOut |-> FALSE, done |-> "none",
         error |-> <<>>, reasoningAccumulator |-> <<>>, subscribed |-> FALSE,
         timer |-> "none", send |-> "none", streamArtifactId |-> <<>>]
NoToolCall == [set |-> FALSE, toolCallId |-> 0, startTime |-> 0]
NoToolCalls == [k \in Sids \X Tools |-> NoToolCall]
NoCtx == [set |-> FALSE, bus |-> "", taskId |-> "", contextId |-> "", traceId |-> ""]

\* execute, lines 199-214: the recorder context bound for this execution.  Without
\* propagated metadata the trace id falls back to the contextId (lines 493-497).
BoundCtx(t, c) == [set |-> TRUE, bus |-> t, taskId |-> t, contextId |-> c, traceId |-> c]

\* execute, lines 217-229: Submitted when the request carried no task, then Working.
Opening(t, c, hasTask) ==
    (IF hasTask THEN <<>> ELSE <<SubmittedEvent(t, c)>>)
    \o <<StatusEvent(t, c, "working", <<"Processing", "request...">>, FALSE)>>

\* execute, lines 438-443: the message of the Failed status.
IsConnErr(msg) ==
    \/ Includes(msg, "ECONNREFUSED") \/ Includes(msg, "ENOTFOUND")
    \/ Includes(msg, "connect") \/ Includes(msg, "socket")
UserMsg(msg) ==
    IF IsConnErr(msg) /\ config.cliUrl # ""
    THEN <<"Cannot", "reach", "GitHub", "Copilot", "CLI", "server", "at", config.cliUrl>>
    ELSE <<"Error:">> \o msg

\* execute, lines 437-446: the catch block.
CatchBlock(t, c, msg) == <<StatusEvent(t, c, "failed", UserMsg(msg), TRUE), FinishedMark>>

\* execute, lines 420-425: the fallback text.
Fallback(text, timedOut) ==
    IF text # <<>> THEN text
    ELSE IF timedOut THEN TimeoutText ELSE NoResponseText

\* Variant: the Completed status is published before the result artifact.
FinalizeStatusFirst(t, c, text, streamArtifactId, uuid) ==
    << StatusEvent(t, c, "completed", <<>>, TRUE),
       IF config.streamArtifactChunks
       THEN LastChunkMarker(t, c, streamArtifactId, text)
       ELSE FinalArtifact(t, c, text, uuid),
       FinishedMark >>

\* execute, lines 427-434: the result artifact, Completed, finished().
Finalize(t, c, text, streamArtifactId, uuid) ==
    << IF config.streamArtifactChunks
       THEN LastChunkMarker(t, c, streamArtifactId, text)
       ELSE FinalArtifact(t, c, text, uuid),
       StatusEvent(t, c, "completed", <<>>, TRUE),
       FinishedMark >>

\* Whether Finalize draws a uuid (publishFinalArtifact does, line 69).
FinalizeUuids == IF config.streamArtifactChunks THEN 0 ELSE 1

\* execute, lines 447-450, the finally block: this.sessionManager!.untrackTask throws
\* on a null manager, and clearContext is then not reached.
FinallyThrows == sessionManager = 0
EndSt == IF FinallyThrows THEN "threw" ELSE "returned"
\* Variant: the finally block leaves the tracking entry in place.
EndTaskSessionsKept(t) == taskSessions

EndTaskSessions(t) ==
    IF FinallyThrows THEN taskSessions
    ELSE [taskSessions EXCEPT ![sessionManager][t] = 0]
EndHookCtx ==
    IF FinallyThrows \/ mcpHooks = 0 THEN hookCtx
    ELSE [hookCtx EXCEPT ![mcpHooks] = NoCtx]
EndToolCalls ==
    IF FinallyThrows \/ mcpHooks = 0 THEN activeToolCalls
    ELSE [activeToolCalls EXCEPT ![mcpHooks] = NoToolCalls]

\* execute() ends: what the try or catch block published is on the bus and the
\* finally block has run.
EndExecute(t, published) ==
    /\ bus' = [bus EXCEPT ![t] = @ \o published]
    /\ call' = [call EXCEPT ![t].st = EndSt]
    /\ taskSessions' = EndTaskSessions(t)
    /\ hookCtx' = EndHookCtx
    /\ activeToolCalls' = EndToolCalls

\* Variant: the prompt is sent before the handlers are subscribed.
StartedSendFirst(t, sid) ==
    [NoEx EXCEPT !.sessionId = sid,
                 !.done = IF config.streaming THEN "pending" ELSE "none",
                 !.subscribed = FALSE,
                 !.timer = "armed",
                 !.send = "pending",
                 !.streamArtifactId = <<"response">> \o Uuid(t, uuids[t] + 1)]

\* execute, lines 233-249 and 366-389: the task is tracked, the handlers are
\* subscribed, the timer is armed and the prompt is sent (streaming), or
\* sendAndWait is raced against the timer (buffered, lines 403-412).
Started(t, sid) ==
    [NoEx EXCEPT !.sessionId = sid,
                 !.done = IF config.streaming THEN "pending" ELSE "none",
                 !.subscribed = config.streaming,
                 !.timer = "armed",
                 !.send = "pending",
                 !.streamArtifactId = <<"response">> \o Uuid(t, uuids[t] + 1)]
PromptSt == IF config.streaming THEN "streaming" ELSE "buffered"

\* execute() is called before any initialize() has succeeded: initialize (lines
\* 44-63) constructs a client and awaits client.start().
ExecuteInit(t, c, hasTask) ==
    /\ call[t] = NoCall /\ req[t] = NoReq
    /\ ~initialized
    /\ clientsCreated < MaxMgrs
    /\ req' = [req EXCEPT ![t] = [contextId |-> c, hasTask |-> hasTask]]
    /\ client' = TRUE
    /\ clientsCreated' = clientsCreated + 1
    /\ call' = [call EXCEPT ![t] = [NoCall EXCEPT !.op = "execute", !.st = "init", !.ctx = c]]
    /\ UNCHANGED <<config, toolInv, destroyOutcome, now, registryVars, ret, sd, initialized, sessionManager, mcpHooks,
                   mgrClient, boot, hookVars, ex, bus, uuids, nEvents, nCancels, signals>>

\* initialize, lines 84-90: hooks and manager are constructed, the cleanup timer
\* is started.
NewManager == managersCreated + 1
InitializedFields ==
    /\ NewManager \in Mgrs
    /\ managersCreated' = NewManager
    /\ mcpHooks' = NewManager
    /\ sessionManager' = NewManager
    /\ mgrClient' = [mgrClient EXCEPT ![NewManager] = client]
    /\ cleanupTimer' = [cleanupTimer EXCEPT ![NewManager] = TRUE]
    /\ activeTimers' = [activeTimers EXCEPT ![NewManager] = @ + 1]
    /\ initialized' = TRUE

\* client.start() settles inside execute()'s initialize().  Rejected: initialize
\* throws (lines 64-81) before execute's try block is entered.  Resolved: execute
\* goes on to line 199 with the new manager, whose map is empty (line 28), so
\* getOrCreate suspends in createSession.
ExecuteInitDone(t, ok) ==
    /\ call[t].op = "execute" /\ call[t].st = "init"
    /\ IF ok
       THEN /\ InitializedFields
            /\ hookCtx' = [hookCtx EXCEPT ![NewManager] = BoundCtx(t, req[t].contextId)]
            /\ bus' = [bus EXCEPT ![t] = @ \o Opening(t, req[t].contextId, req[t].hasTask)]
            /\ call' = [call EXCEPT ![t].st = "creating", ![t].mgr = NewManager]
       ELSE /\ call' = [call EXCEPT ![t].st = "threw"]
            /\ UNCHANGED <<managersCreated, mcpHooks, sessionManager, mgrClient, cleanupTimer,
                           activeTimers, initialized, hookCtx, bus>>
    /\ UNCHANGED <<config, toolInv, destroyOutcome, now, nSessions, sessCtx, sessMgr, destroyCalls, contextSessions,
                   taskSessions, ret, sd, client, clientsCreated, boot, activeToolCalls,
                   toolCallIds, req, ex, uuids, nEvents, nCancels, signals>>

\* execute() on an initialized executor whose manager is set: lines 199-233.
ExecuteReady(t, c, hasTask) ==
    /\ call[t] = NoCall /\ req[t] = NoReq
    /\ initialized /\ sessionManager # 0
    /\ CanCreate
    /\ req' = [req EXCEPT ![t] = [contextId |-> c, hasTask |-> hasTask]]
    /\ hookCtx' = IF mcpHooks = 0 THEN hookCtx ELSE [hookCtx EXCEPT ![mcpHooks] = BoundCtx(t, c)]
    /\ bus' = [bus EXCEPT ![t] = @ \o Opening(t, c, hasTask)]
    /\ contextSessions' = GocMap(sessionManager, c)
    /\ destroyCalls' = GocDestroyCalls(sessionManager, c)
    /\ IF GocBranch(sessionManager, c) = "reuse"
       THEN LET sid == MapGet(contextSessions[sessionManager], c).sessionId IN
            /\ taskSessions' = [taskSessions EXCEPT ![sessionManager][t] = sid]
            /\ ex' = [ex EXCEPT ![t] = Started(t, sid)]
            /\ uuids' = [uuids EXCEPT ![t] = @ + 1]
            /\ call' = [call EXCEPT ![t] = [NoCall EXCEPT !.op = "execute", !.st = PromptSt,
                                                          !.ctx = c, !.mgr = sessionManager]]
       ELSE /\ call' = [call EXCEPT ![t] = GocSuspend("execute", sessionManager, c)]
            /\ UNCHANGED <<taskSessions, ex, uuids>>
    /\ UNCHANGED <<config, toolInv, destroyOutcome, now, nSessions, sessCtx, sessMgr, managersCreated, cleanupTimer,
                   activeTimers, ret, sd, executorVars, activeToolCalls, toolCallIds,
                   nEvents, nCancels, signals>>

\* execute() while initialized is still true and this.sessionManager is already
\* null (shutdown() is awaiting client.stop(), or client.stop() rejected): line 232
\* throws a TypeError, the catch block publishes Failed, the finally block throws.
ExecuteNoManager(t, c, hasTask) ==
    /\ call[t] = NoCall /\ req[t] = NoReq
    /\ initialized /\ sessionManager = 0
    /\ req' = [req EXCEPT ![t] = [contextId |-> c, hasTask |-> hasTask]]
    /\ hookCtx' = IF mcpHooks = 0 THEN hookCtx ELSE [hookCtx EXCEPT ![mcpHooks] = BoundCtx(t, c)]
    /\ bus' = [bus EXCEPT ![t] = @ \o Opening(t, c, hasTask) \o CatchBlock(t, c, MsgTypeError)]
    /\ call' = [call EXCEPT ![t] = [NoCall EXCEPT !.op = "execute", !.st = "threw", !.ctx = c]]
    /\ UNCHANGED <<config, toolInv, destroyOutcome, now, registryVars, ret, sd, executorVars, activeToolCalls,
                   toolCallIds, ex, uuids, nEvents, nCancels, signals>>

\* createSession settles inside execute()'s getOrCreate (lines 163-178).  Resolved:
\* the entry is stored, then lines 233-249 / 366-389 / 403-412 run; line 233 reads
\* this.sessionManager again.  Rejected with msg: the catch block runs.
ExecuteCreateDone(t, ok, msg) ==
    /\ call[t].op = "execute" /\ call[t].st = "creating"
    /\ ok => mgrClient[call[t].mgr]
    /\ ~ok /\ ~mgrClient[call[t].mgr] => msg = MsgEmpty
    /\ LET c == req[t].contextId
           sid == nSessions + 1
           err == IF ~mgrClient[call[t].mgr] THEN MsgTypeError ELSE msg IN
       IF ok
       THEN /\ nSessions' = sid
            /\ sessCtx' = [sessCtx EXCEPT ![sid] = c]
            /\ sessMgr' = [sessMgr EXCEPT ![sid] = call[t].mgr]
            /\ contextSessions' = StoreEntry(call[t].mgr, c, sid)
            /\ IF sessionManager = 0
               THEN /\ EndExecute(t, CatchBlock(t, c, MsgTypeError))
                    /\ UNCHANGED <<ex, uuids>>
               ELSE /\ taskSessions' = [taskSessions EXCEPT ![sessionManager][t] = sid]
                    /\ ex' = [ex EXCEPT ![t] = Started(t, sid)]
                    /\ uuids' = [uuids EXCEPT ![t] = @ + 1]
                    /\ call' = [call EXCEPT ![t].st = PromptSt]
                    /\ UNCHANGED <<bus, hookCtx, activeToolCalls>>
       ELSE /\ EndExecute(t, CatchBlock(t, c, err))
            /\ UNCHANGED <<nSessions, sessCtx, sessMgr, contextSessions, ex, uuids>>
    /\ UNCHANGED <<config, toolInv, destroyOutcome, now, destroyCalls, managersCreated, cleanupTimer, activeTimers,
                   ret, sd, executorVars, toolCallIds, req, nEvents, nCancels, signals>>

\* ---------------------------------------------- streaming mode: handlers

DeltaContents == {<<>>, <<"a">>}
ReasoningContents == {<<>>, <<"r">>}
\* An optional field of an event: absent, or present with a value.
Absent == [some |-> FALSE, v |-> <<>>]
Some(v) == [some |-> TRUE, v |-> v]
\* x ?? d
Coalesce(x, d) == IF x.some THEN x.v ELSE d

\* createDeferred: a promise settles once; later resolve/reject calls change nothing.
ResolveDone(e) == IF e.done = "pending" THEN [e EXCEPT !.done = "resolved"] ELSE e
RejectDone(e, msg) ==
    IF e.done = "pending" THEN [e EXCEPT !.done = "rejected", !.error = msg] ELSE e

\* The handlers of task t are subscribed and an event may still be delivered.
Subscribed(t) ==
    /\ call[t].op = "execute" /\ call[t].st = "streaming"
    /\ ex[t].subscribed
CanDeliver(t) == nEvents[t] < MaxEvents
CanSignal(t) == Len(signals[t]) < MaxSignals

\* A handler of task t ran: its locals are e, it published `published` drawing
\* n uuids.
Handled(t, e, published, n) ==
    /\ ex' = [ex EXCEPT ![t] = e]
    /\ bus' = [bus EXCEPT ![t] = @ \o published]
    /\ uuids' = [uuids EXCEPT ![t] = @ + n]
    /\ nEvents' = [nEvents EXCEPT ![t] = @ + 1]
    /\ UNCHANGED <<config, toolInv, destroyOutcome, now, registryVars, call, ret, sd, executorVars, hookVars,
                   req, nCancels>>

\* A handler that only settles the promise ran: its locals are e.
Signalled(t, e) ==
    /\ ex' = [ex EXCEPT ![t] = e]
    /\ UNCHANGED <<config, toolInv, destroyOutcome, now, registryVars, call, ret, sd, executorVars, hookVars,
                   req, bus, uuids, nEvents, nCancels>>

\* A variant that marks the progress status as final.
WorkingFinal(t, msg) == <<StatusEvent(t, req[t].contextId, "working", msg, TRUE)>>

Working(t, msg) == <<StatusEvent(t, req[t].contextId, "working", msg, FALSE)>>

\* assistant.message_delta, lines 252-260.
OnMessageDelta(t, delta) ==
    /\ Subscribed(t) /\ CanDeliver(t)
    /\ Handled(t,
               [ex[t] EXCEPT !.accumulatedText = @ \o delta],
               IF delta # <<>> /\ config.streamArtifactChunks
               THEN <<StreamingChunk(t, req[t].contextId, ex[t].streamArtifactId, delta)>>
               ELSE <<>>,
               0)
    /\ UNCHANGED signals

\* assistant.reasoning_delta, lines 264-270.
OnReasoningDelta(t, delta) ==
    /\ Subscribed(t) /\ CanDeliver(t)
    /\ Handled(t, [ex[t] EXCEPT !.reasoningAccumulator = @ \o delta], <<>>, 0)
    /\ UNCHANGED signals

\* assistant.message, lines 273-279.
OnMessage(t, content) ==
    /\ Subscribed(t) /\ CanDeliver(t)
    /\ Handled(t,
               IF content # <<>> /\ ex[t].accumulatedText = <<>>
               THEN [ex[t] EXCEPT !.accumulatedText = content] ELSE ex[t],
               <<>>, 0)
    /\ UNCHANGED signals

\* assistant.reasoning, lines 282-289.
OnReasoning(t, optContent) ==
    /\ Subscribed(t) /\ CanDeliver(t)
    /\ LET content == Coalesce(optContent, ex[t].reasoningAccumulator) IN
       IF content # <<>>
       THEN Handled(t, [ex[t] EXCEPT !.reasoningAccumulator = <<>>],
                    <<ThoughtArtifact(t, req[t].contextId, "trace.thought", content,
                                      Uuid(t, uuids[t] + 1))>>, 1)
       ELSE Handled(t, ex[t], <<>>, 0)
    /\ UNCHANGED signals

\* assistant.intent, lines 292-298.
OnIntent(t, intent) ==
    /\ Subscribed(t) /\ CanDeliver(t)
    /\ Handled(t, ex[t], IF intent # <<>> THEN Working(t, <<"Intent:">> \o intent) ELSE <<>>, 0)
    /\ UNCHANGED signals

\* tool.execution_start, lines 301-305.
OnToolExecutionStart(t, toolName) ==
    /\ Subscribed(t) /\ CanDeliver(t)
    /\ Handled(t, ex[t], Working(t, <<"Executing", toolName>>), 0)
    /\ UNCHANGED signals

\* tool.execution_progress, lines 308-313.
OnToolExecutionProgress(t, msg) ==
    /\ Subscribed(t) /\ CanDeliver(t)
    /\ Handled(t, ex[t], IF msg # <<>> THEN Working(t, msg) ELSE <<>>, 0)
    /\ UNCHANGED signals

\* tool.execution_complete, lines 316-327.
OnToolExecutionComplete(t, success) ==
    /\ Subscribed(t) /\ CanDeliver(t)
    /\ Handled(t, ex[t],
               IF success THEN Working(t, <<"Tool", "completed">>)
               ELSE Working(t, <<"Tool", "error:", "Unknown", "error">>), 0)
    /\ UNCHANGED signals

\* subagent.started / completed / failed, lines 330-344.
OnSubagentStarted(t) ==
    /\ Subscribed(t) /\ CanDeliver(t)
    /\ Handled(t, ex[t], Working(t, <<"Delegating", "to", "subagent">>), 0)
    /\ UNCHANGED signals
OnSubagentCompleted(t) ==
    /\ Subscribed(t) /\ CanDeliver(t)
    /\ Handled(t, ex[t], Working(t, <<"subagent", "completed">>), 0)
    /\ UNCHANGED signals
OnSubagentFailed(t) ==
    /\ Subscribed(t) /\ CanDeliver(t)
    /\ Handled(t, ex[t], Working(t, <<"subagent", "failed:", "Unknown", "error">>), 0)
    /\ UNCHANGED signals

\* Variant: the message is matched without lowering its case.
IsTimeoutMsgCaseSensitive(msg) == Includes(msg, "timeout")

\* A message that case-insensitively contains "timeout" (lines 351, 380).
IsTimeoutMsg(msg) == Includes(ToLowerCase(msg), "timeout")

\* session.error, lines 347-359.
SessionErrorEffect(e, msg) ==
    IF IsTimeoutMsg(msg) THEN ResolveDone([e EXCEPT !.timedOut = TRUE])
    ELSE RejectDone(e, msg)
OnSessionError(t, optMsg) ==
    /\ Subscribed(t) /\ CanSignal(t)
    /\ Signalled(t, SessionErrorEffect(ex[t], Coalesce(optMsg, MsgSessionError)))
    /\ signals' = [signals EXCEPT ![t] =
                     Append(@, [kind |-> "error", msg |-> Coalesce(optMsg, MsgSessionError)])]

\* session.idle, lines 362-364.
OnSessionIdle(t) ==
    /\ Subscribed(t) /\ CanSignal(t)
    /\ Signalled(t, ResolveDone(ex[t]))
    /\ signals' = [signals EXCEPT ![t] = Append(@, [kind |-> "idle", msg |-> <<>>])]

\* Variant: the timer resolves the promise without setting timedOut.
TimerEffectUnflagged(e) == ResolveDone([e EXCEPT !.timer = "fired"])

\* The prompt timer fires, lines 368-372.  A timer callback is a task of its own:
\* once the promise is settled the continuation of `await done` runs first (as a
\* microtask) and clears the timer (line 391), so the timer fires only while the
\* promise is pending.
TimerEffect(e) == ResolveDone([e EXCEPT !.timedOut = TRUE, !.timer = "fired"])
PromptTimeout(t) ==
    /\ Subscribed(t)
    /\ ex[t].timer = "armed"
    /\ ex[t].done = "pending"
    /\ ex' = [ex EXCEPT ![t] = TimerEffect(ex[t])]
    /\ signals' = [signals EXCEPT ![t] = Append(@, [kind |-> "timer", msg |-> <<>>])]
    /\ UNCHANGED <<config, toolInv, destroyOutcome, now, registryVars, call, ret, sd, executorVars, hookVars,
                   req, bus, uuids, nEvents, nCancels>>

\* send() rejects, lines 378-387.
SendRejected(t, msg) ==
    /\ Subscribed(t)
    /\ ex[t].send = "pending"
    /\ ex' = [ex EXCEPT ![t] = [SessionErrorEffect(ex[t], msg) EXCEPT !.send = "rejected"]]
    /\ signals' = [signals EXCEPT ![t] = Append(@, [kind |-> "sendReject", msg |-> msg])]
    /\ UNCHANGED <<config, toolInv, destroyOutcome, now, registryVars, call, ret, sd, executorVars, hookVars,
                   req, bus, uuids, nEvents, nCancels>>

\* execute, lines 397-400: the truncation notice.
WithNotice(e) ==
    IF e.timedOut /\ e.accumulatedText # <<>>
    THEN e.accumulatedText \o TruncationNotice ELSE e.accumulatedText

\* execute, lines 390-395: the timer is cleared and every handler unsubscribed.
Teardown(e) == [e EXCEPT !.subscribed = FALSE,
                         !.timer = IF @ = "armed" THEN "cleared" ELSE @]

\* `await done` returns or throws: lines 389-450.
StreamSettled(t) ==
    /\ call[t].op = "execute" /\ call[t].st = "streaming"
    /\ ex[t].done \in {"resolved", "rejected"}
    /\ LET c == req[t].contextId
           text == Fallback(WithNotice(ex[t]), ex[t].timedOut) IN
       IF ex[t].done = "resolved"
       THEN /\ ex' = [ex EXCEPT ![t] = [Teardown(ex[t]) EXCEPT !.accumulatedText = text]]
            /\ EndExecute(t, Finalize(t, c, text, ex[t].streamArtifactId,
                                      Uuid(t, uuids[t] + 1)))
            /\ uuids' = [uuids EXCEPT ![t] = @ + FinalizeUuids]
       ELSE /\ ex' = [ex EXCEPT ![t] = Teardown(ex[t])]
            /\ EndExecute(t, CatchBlock(t, c, ex[t].error))
            /\ UNCHANGED uuids
    /\ UNCHANGED <<config, toolInv, destroyOutcome, now, nSessions, sessCtx, sessMgr, destroyCalls, managersCreated,
                   contextSessions, cleanupTimer, activeTimers, ret, sd, executorVars,
                   toolCallIds, req, nEvents, nCancels, signals>>

\* ------------------------------------------------------- buffered mode

ResponseContents == {Absent, Some(<<>>), Some(<<"m">>)}

Buffered(t) == call[t].op = "execute" /\ call[t].st = "buffered"

\* execute, lines 413-434: the race resolved with a response.
BufferedCompleted(t, content, timerSt) ==
    LET text == Fallback(content, FALSE) IN
    /\ ex' = [ex EXCEPT ![t].accumulatedText = text, ![t].timer = timerSt,
                        ![t].send = "settled"]
    /\ EndExecute(t, Finalize(t, req[t].contextId, text, ex[t].streamArtifactId,
                              Uuid(t, uuids[t] + 1)))
    /\ uuids' = [uuids EXCEPT ![t] = @ + FinalizeUuids]

\* execute, line 415: what the inner catch swallows.
SwallowedAsTimeout(msg) == Includes(msg, "timeout")

\* execute, lines 414-417 and 437-446: the race rejected with msg.
BufferedCaught(t, msg, timerSt) ==
    IF SwallowedAsTimeout(msg)
    THEN BufferedCompleted(t, <<>>, timerSt)
    ELSE /\ ex' = [ex EXCEPT ![t].timer = timerSt, ![t].send = "settled"]
         /\ EndExecute(t, CatchBlock(t, req[t].contextId, msg))
         /\ UNCHANGED uuids

\* sendAndWait resolves first.
BufferedResponse(t, optContent) ==
    /\ Buffered(t)
    /\ BufferedCompleted(t, Coalesce(optContent, <<>>), ex[t].timer)
    /\ signals' = [signals EXCEPT ![t] = Append(@, [kind |-> "response", msg |-> <<>>])]
    /\ UNCHANGED <<config, toolInv, destroyOutcome, now, nSessions, sessCtx, sessMgr, destroyCalls, managersCreated,
                   contextSessions, cleanupTimer, activeTimers, ret, sd, executorVars,
                   toolCallIds, req, nEvents, nCancels>>

\* sendAndWait rejects first.
BufferedRejected(t, msg) ==
    /\ Buffered(t)
    /\ BufferedCaught(t, msg, ex[t].timer)
    /\ signals' = [signals EXCEPT ![t] = Append(@, [kind |-> "sendReject", msg |-> msg])]
    /\ UNCHANGED <<config, toolInv, destroyOutcome, now, nSessions, sessCtx, sessMgr, destroyCalls, managersCreated,
                   contextSessions, cleanupTimer, activeTimers, ret, sd, executorVars,
                   toolCallIds, req, nEvents, nCancels>>

\* The timer of lines 404-406 wins the race.
BufferedTimeout(t) ==
    /\ Buffered(t)
    /\ ex[t].timer = "armed"
    /\ BufferedCaught(t, MsgPromptTimeout, "fired")
    /\ signals' = [signals EXCEPT ![t] = Append(@, [kind |-> "timer", msg |-> <<>>])]
    /\ UNCHANGED <<config, toolInv, destroyOutcome, now, nSessions, sessCtx, sessMgr, destroyCalls, managersCreated,
                   contextSessions, cleanupTimer, activeTimers, ret, sd, executorVars,
                   toolCallIds, req, nEvents, nCancels>>

\* ------------------------------------------------------------ cancelTask

\* cancelTask, lines 452-461: Canceled is published with an empty contextId, then
\* finished(); the session call is not touched.
CancelTask(t) ==
    /\ call[t].op = "execute"
    /\ nCancels[t] < MaxCancels
    /\ nCancels' = [nCancels EXCEPT ![t] = @ + 1]
    /\ bus' = [bus EXCEPT ![t] = @ \o <<StatusEvent(t, "", "canceled", <<>>, TRUE),
                                        FinishedMark>>]
    /\ UNCHANGED <<config, toolInv, destroyOutcome, now, registryVars, call, ret, sd, executorVars, hookVars,
                   req, ex, uuids, nEvents, signals>>

\* ------------------------------------------------- initialize / shutdown

\* createA2AServer calls executor.initialize() (lines 44-63).
CallInitialize ==
    /\ boot = "idle"
    /\ ~initialized
    /\ clientsCreated < MaxMgrs
    /\ client' = TRUE
    /\ clientsCreated' = clientsCreated + 1
    /\ boot' = "init"
    /\ UNCHANGED <<config, toolInv, destroyOutcome, now, registryVars, call, ret, sd, initialized, sessionManager,
                   mcpHooks, mgrClient, hookVars, taskVars>>

\* client.start() settles for that call (lines 63-95).
InitializeDone(ok) ==
    /\ boot = "init"
    /\ boot' = "idle"
    /\ IF ok THEN InitializedFields
       ELSE UNCHANGED <<managersCreated, mcpHooks, sessionManager, mgrClient, cleanupTimer,
                        activeTimers, initialized>>
    /\ UNCHANGED <<config, toolInv, destroyOutcome, now, nSessions, sessCtx, sessMgr, destroyCalls, contextSessions,
                   taskSessions, call, ret, sd, client, clientsCreated, hookVars, taskVars>>

\* CopilotExecutor.shutdown, lines 100-106: after sessionManager.shutdown() returned.
AfterManagerShutdown ==
    /\ sessionManager' = 0
    /\ IF client
       THEN /\ sd' = [NoSd EXCEPT !.st = "stopping", !.level = "executor"]
            /\ UNCHANGED initialized
       ELSE /\ sd' = NoSd
            /\ initialized' = FALSE

\* CopilotExecutor.shutdown is called, lines 97-106.
CallExecutorShutdown ==
    /\ sd.st = "idle"
    /\ IF sessionManager # 0
       THEN LET n == SdNext(contextSessions[sessionManager], destroyCalls, sessionManager,
                            "executor") IN
            /\ cleanupTimer' = [cleanupTimer EXCEPT ![sessionManager] = FALSE]
            /\ activeTimers' = ClearedTimers(sessionManager)
            /\ destroyCalls' = n.dc
            /\ IF n.sd.st = "returned" THEN AfterManagerShutdown
               ELSE /\ sd' = n.sd
                    /\ UNCHANGED <<sessionManager, initialized>>
       ELSE /\ UNCHANGED <<cleanupTimer, activeTimers, destroyCalls>>
            /\ AfterManagerShutdown
    /\ UNCHANGED <<config, toolInv, destroyOutcome, now, nSessions, sessCtx, sessMgr, managersCreated, contextSessions,
                   taskSessions, call, ret, client, clientsCreated, mcpHooks, mgrClient, boot,
                   hookVars, taskVars>>

\* The destroy() awaited by the manager's shutdown loop settles (lines 239-242);
\* when the loop ends, executor.shutdown goes on.
ExecutorShutdownDestroyDone(ok) ==
    /\ sd.st = "destroying"
    /\ sd.level = "executor"
    /\ destroyOutcome' = Settled(ok)
    /\ LET cs == MapDelete(contextSessions[sd.mgr], sd.cur)
           n == SdNext(cs, destroyCalls, sd.mgr, "executor") IN
         /\ contextSessions' = [contextSessions EXCEPT ![sd.mgr] = cs]
         /\ destroyCalls' = n.dc
         /\ IF n.sd.st = "returned" THEN AfterManagerShutdown
            ELSE /\ sd' = n.sd
                 /\ UNCHANGED <<sessionManager, initialized>>
    /\ UNCHANGED <<config, toolInv, now, nSessions, sessCtx, sessMgr, managersCreated, taskSessions,
                   cleanupTimer, activeTimers, call, ret, client, clientsCreated, mcpHooks,
                   mgrClient, boot, hookVars, taskVars>>

\* client.stop() settles, lines 103-106; rejected: shutdown throws there.
ClientStopDone(ok) ==
    /\ sd.st = "stopping"
    /\ sd' = NoSd
    /\ IF ok THEN client' = FALSE /\ initialized' = FALSE
       ELSE UNCHANGED <<client, initialized>>
    /\ UNCHANGED <<config, toolInv, destroyOutcome, now, registryVars, call, ret, clientsCreated, sessionManager,
                   mcpHooks, mgrClient, boot, hookVars, taskVars>>

\* ---------------------------------------------------------- tool payloads

\* session-manager.ts line 276.
MAX_DATA_SIZE == 100000

\* A JavaScript value: t is its type; a string is the first n characters of the
\* text named s, followed by the truncation note of line 451 when note > 0 (the
\* total length it mentions); a number has value n; f holds the elements of an
\* array (k = "") or the own enumerable properties of an object, in order.
\* "cyc" is an object that holds a reference to itself, "big" a BigInt.
Val(t, s, n, f) == [t |-> t, s |-> s, n |-> n, note |-> 0, f |-> f]
Undefined == Val("undef", "", 0, <<>>)
Null == Val("null", "", 0, <<>>)
True == Val("true", "", 0, <<>>)
Num(n) == Val("num", "", n, <<>>)
BigInt == Val("big", "", 0, <<>>)
Str(s, n) == Val("str", s, n, <<>>)
Cyclic == Val("cyc", "", 0, <<>>)
Field(k, v) == [k |-> k, v |-> v]
Arr(items) == Val("arr", "", 0, [i \in DOMAIN items |-> Field("", items[i])])
Obj(fields) == Val("obj", "", 0, fields)

\* session-manager.ts lines 278-287.
SENSITIVE_KEYS == {"token", "access_token", "authorization", "api_key", "apikey",
                   "password", "secret", "credential"}
\* The property names the payloads use, their lengths and lower-case forms.
Keys == {"q", "token", "Token", "PASSWORD", "tokens", "items"}
KeyLen(k) ==
    CASE k = "q" -> 1
      [] k \in {"token", "Token", "items"} -> 5
      [] k = "tokens" -> 6
      [] k = "PASSWORD" -> 8
      [] k = "_truncated" -> 10
      [] k = "_original_size" -> 14
      [] k = "preview" -> 7
      [] OTHER -> 0
KeyToLowerCase(k) ==
    CASE k = "Token" -> "token"
      [] k = "PASSWORD" -> "password"
      [] OTHER -> k

Redacted == Str("<redacted>", 10)

\* Variant: the key is compared as written.
IsSensitiveExact(k) == k \in SENSITIVE_KEYS

\* sanitize, line 437.
IsSensitive(k) == KeyToLowerCase(k) \in SENSITIVE_KEYS

\* sanitize recurses forever on an object that contains itself (lines 431-441):
\* the call ends with a RangeError (stack overflow).
RECURSIVE SanitizeRaises(_)
SanitizeRaises(v) ==
    IF v.t = "cyc" THEN TRUE
    ELSE IF v.t = "arr" THEN \E i \in DOMAIN v.f : SanitizeRaises(v.f[i].v)
    ELSE IF v.t = "obj"
         THEN \E i \in DOMAIN v.f : ~IsSensitive(v.f[i].k) /\ SanitizeRaises(v.f[i].v)
    ELSE FALSE

\* sanitize, lines 429-444, where it returns.
RECURSIVE Sanitize(_)
Sanitize(v) ==
    IF v.t = "arr"
    THEN [v EXCEPT !.f = [i \in DOMAIN v.f |-> Field("", Sanitize(v.f[i].v))]]
    ELSE IF v.t = "obj"
    THEN [v EXCEPT !.f = [i \in DOMAIN v.f |->
                            IF IsSensitive(v.f[i].k) THEN Field(v.f[i].k, Redacted)
                            ELSE Field(v.f[i].k, Sanitize(v.f[i].v))]]
    ELSE v

\* Decimal digits of a natural number.
RECURSIVE Digits(_)
Digits(n) == IF n < 10 THEN 1 ELSE 1 + Digits(n \div 10)
\* Length of the note "... [truncated, total N chars]" (line 451).
NoteLen(total) == 29 + Digits(total)

\* JSON.stringify(v): "throws" (a BigInt, a circular structure), "undefined"
\* (the value undefined), or "string".
RECURSIVE StringifyThrows(_)
StringifyThrows(v) ==
    IF v.t \in {"big", "cyc"} THEN TRUE
    ELSE \E i \in DOMAIN v.f : StringifyThrows(v.f[i].v)
Stringify(v) ==
    IF StringifyThrows(v) THEN "throws"
    ELSE IF v.t = "undef" THEN "undefined" ELSE "string"

RECURSIVE SumSeq(_)
SumSeq(q) == IF q = <<>> THEN 0 ELSE q[1] + SumSeq(Tail(q))
\* Length of JSON.stringify(v) for a value that has a JSON text; the strings of
\* the payloads need no escapes.  An undefined array element is written null,
\* an undefined property is left out.
RECURSIVE JsonLength(_)
JsonLength(v) ==
    CASE v.t \in {"null", "true"} -> 4
      [] v.t = "num" -> Digits(v.n)
      [] v.t = "str" -> v.n + 2 + (IF v.note > 0 THEN NoteLen(v.note) ELSE 0)
      [] v.t = "arr" ->
           2 + SumSeq([i \in DOMAIN v.f |->
                         IF v.f[i].v.t = "undef" THEN 4 ELSE JsonLength(v.f[i].v)])
             + (IF Len(v.f) > 1 THEN Len(v.f) - 1 ELSE 0)
      [] v.t = "obj" ->
           LET kept == SelectSeq(v.f, LAMBDA x : x.v.t # "undef") IN
           2 + SumSeq([i \in DOMAIN kept |-> KeyLen(kept[i].k) + 3 + JsonLength(kept[i].v)])
             + (IF Len(kept) > 1 THEN Len(kept) - 1 ELSE 0)
      [] OTHER -> 0

\* safeJson, lines 466-472: the length of the string it returns, when it
\* returns one ('"<unserializable>"' has 18 characters).
SafeJsonLength(v) == IF Stringify(v) = "throws" THEN 18 ELSE JsonLength(v)

\* truncate reads json.length of undefined (line 455): a TypeError.
TruncateRaises(v) == v.t # "str" /\ Stringify(v) = "undefined"

\* Variant: a payload whose serialized size equals the ceiling is replaced too.
TruncateAtCeiling(v) ==
    IF v.t = "str" /\ v.n > MAX_DATA_SIZE
    THEN [v EXCEPT !.n = MAX_DATA_SIZE, !.note = v.n]
    ELSE IF SafeJsonLength(v) >= MAX_DATA_SIZE
    THEN Obj(<<Field("_truncated", True),
               Field("_original_size", Num(SafeJsonLength(v))),
               Field("preview", Str("json", MAX_DATA_SIZE))>>)
    ELSE v

\* truncate, lines 447-464, where it returns.
Truncate(v) ==
    IF v.t = "str" /\ v.n > MAX_DATA_SIZE
    THEN [v EXCEPT !.n = MAX_DATA_SIZE, !.note = v.n]
    ELSE IF SafeJsonLength(v) > MAX_DATA_SIZE
    THEN Obj(<<Field("_truncated", True),
               Field("_original_size", Num(SafeJsonLength(v))),
               Field("preview", Str("json", MAX_DATA_SIZE))>>)
    ELSE v

\* ----------------------------------------------------- McpEvidenceHooks

\* The session of task t is working on its prompt.
Prompting(t) == call[t].op = "execute" /\ call[t].st \in {"streaming", "buffered"}

\* Date.now() is a time after the epoch, never 0 (lines 346, 378).
DateNow == now + 1

\* The hooks instance the session of task t was created with (line 84).
HooksOf(t) == sessMgr[ex[t].sessionId]
\* sessionId + ":" + toolName (lines 351, 375).
ToolKey(t, toolName) == <<ex[t].sessionId, toolName>>

\* inp.toolArgs || {} (lines 344, 369): an absent or null value is the empty
\* object.
OrEmpty(toolArgs) == IF toolArgs.t \in {"undef", "null"} THEN Obj(<<>>) ELSE toolArgs

\* onPreToolUse raises when sanitize(toolArgs) does (line 353), before the
\* record is stored.
PreToolUseRaises(toolArgs) == SanitizeRaises(OrEmpty(toolArgs))

\* onPreToolUse, lines 338-361, called by the SDK for the session of task t: the
\* record is stored under the key.  (Its args field is never read and is left
\* out.)
PreToolUse(t, toolName, toolArgs) ==
    /\ toolCallIds' = toolCallIds + 1
    /\ activeToolCalls' =
         IF PreToolUseRaises(toolArgs) THEN activeToolCalls
         ELSE [activeToolCalls EXCEPT ![HooksOf(t)][ToolKey(t, toolName)] =
                 [set |-> TRUE, toolCallId |-> toolCallIds + 1, startTime |-> DateNow]]
    /\ UNCHANGED hookCtx

\* Variant: a tool whose record is still present is denied.
PreToolUseDecisionOnce(t, toolName, toolArgs) ==
    IF activeToolCalls[HooksOf(t)][ToolKey(t, toolName)].set THEN "deny" ELSE "allow"

\* onPreToolUse, line 360: what the hook returns.
PreToolUseDecision(t, toolName, toolArgs) ==
    IF PreToolUseRaises(toolArgs) THEN "raised" ELSE "allow"

\* onPostToolUse, lines 376-379: the record found, the call id and the time.
Tracked(t, toolName) == activeToolCalls[HooksOf(t)][ToolKey(t, toolName)]
PostToolCallId(t, toolName) ==
    IF Tracked(t, toolName).set THEN Tracked(t, toolName).toolCallId ELSE toolCallIds + 1
PostStartTime(t, toolName) ==
    IF Tracked(t, toolName).set /\ Tracked(t, toolName).startTime # 0
    THEN Tracked(t, toolName).startTime ELSE DateNow

\* onPostToolUse raises inside the block of lines 390-418, while the data of the
\* artifact is built: sanitize or truncate raises on the arguments or the result.
PostToolUseRaises(t, toolArgs, toolResult) ==
    /\ hookCtx[HooksOf(t)].set
    /\ IF SanitizeRaises(OrEmpty(toolArgs)) THEN TRUE
       ELSE IF TruncateRaises(Sanitize(OrEmpty(toolArgs))) THEN TRUE
       ELSE IF SanitizeRaises(toolResult) THEN TRUE
       ELSE TruncateRaises(Sanitize(toolResult))
\* onPostToolUse publishes the trace artifact.
PostToolUsePublishes(t, toolArgs, toolResult) ==
    hookCtx[HooksOf(t)].set /\ ~PostToolUseRaises(t, toolArgs, toolResult)

\* onPostToolUse, lines 363-422, called by the SDK for the session of task t.
PostToolUse(t, toolName, toolArgs, toolResult) ==
    LET h == HooksOf(t)
        b == hookCtx[h].bus IN
    /\ toolCallIds' = IF Tracked(t, toolName).set THEN toolCallIds ELSE toolCallIds + 1
    /\ activeToolCalls' = [activeToolCalls EXCEPT ![h][ToolKey(t, toolName)] = NoToolCall]
    /\ IF PostToolUsePublishes(t, toolArgs, toolResult)
       THEN /\ bus' = [bus EXCEPT ![b] = Append(@,
                         TraceArtifact(hookCtx[h].taskId, hookCtx[h].contextId, "trace.mcp",
                                       toolName,
                                       [toolCallId |-> PostToolCallId(t, toolName),
                                        durationMs |-> DateNow - PostStartTime(t, toolName),
                                        arguments |-> Truncate(Sanitize(OrEmpty(toolArgs))),
                                        result |-> Truncate(Sanitize(toolResult))],
                                       Uuid(b, uuids[b] + 1)))]
            /\ uuids' = [uuids EXCEPT ![b] = @ + 1]
       ELSE UNCHANGED <<bus, uuids>>
    /\ UNCHANGED hookCtx

\* The payloads of the tool call the executor's requests make.
ScenarioArgs == Obj(<<Field("q", Str("x", 1)), Field("token", Str("abc", 3))>>)
ScenarioResult == Obj(<<Field("items", Arr(<<Str("x", 1)>>))>>)

\* The SDK calls onPreToolUse for a tool call of the session of task t.
OnPreToolUse(t, toolName) ==
    /\ Prompting(t) /\ CanDeliver(t)
    /\ PreToolUse(t, toolName, ScenarioArgs)
    /\ nEvents' = [nEvents EXCEPT ![t] = @ + 1]
    /\ UNCHANGED <<config, toolInv, destroyOutcome, now, registryVars, call, ret, sd, executorVars,
                   req, ex, bus, uuids, nCancels, signals>>

\* The SDK calls onPostToolUse for a tool call of the session of task t.
OnPostToolUse(t, toolName) ==
    /\ Prompting(t) /\ CanDeliver(t)
    /\ PostToolUse(t, toolName, ScenarioArgs, ScenarioResult)
    /\ nEvents' = [nEvents EXCEPT ![t] = @ + 1]
    /\ UNCHANGED <<config, toolInv, destroyOutcome, now, registryVars, call, ret, sd, executorVars,
                   req, ex, nCancels, signals>>

\* ---- tool invocations, each with its pre and its post hook

NoInv == [st |-> "none", task |-> "", tool |-> "", args |-> Undefined, result |-> Undefined,
          preId |-> 0, preStart |-> 0, decision |-> "",
          found |-> FALSE, published |-> FALSE, outcome |-> ""]

\* The arguments and results of the tool calls.
BigText(n) == Str("text", n)
ArgPayloads ==
    { ScenarioArgs,
      Obj(<<Field("Token", Obj(<<Field("q", Str("x", 1))>>)),
            Field("items", Arr(<<Obj(<<Field("PASSWORD", Str("abc", 3))>>), Str("x", 1)>>))>>),
      Obj(<<Field("tokens", Str("abc", 3))>>),
      Obj(<<Field("q", BigText(MAX_DATA_SIZE))>>),
      Undefined }
ResultPayloads ==
    { Null, Undefined,
      Obj(<<Field("items", Arr(<<Obj(<<Field("token", Str("abc", 3))>>)>>))>>),
      BigText(MAX_DATA_SIZE - 2), BigText(MAX_DATA_SIZE), BigText(MAX_DATA_SIZE + 1),
      Obj(<<Field("q", BigInt)>>), Cyclic }

\* The first invocation takes every arguments payload, and every result when its
\* arguments are the scenario's; the other payloads are the scenario's.
ArgsOf(i) == IF i = 1 THEN ArgPayloads ELSE {ScenarioArgs}
ResultsOf(i) ==
    IF i = 1 /\ toolInv[i].args = ScenarioArgs THEN ResultPayloads ELSE {ScenarioResult}

\* The SDK starts invocation i of a tool for the session of task t and calls
\* onPreToolUse (lines 338-361).
SdkPreToolUse(i, t, toolName, toolArgs) ==
    /\ toolInv[i].st = "none"
    /\ i > 1 => toolInv[i - 1].st # "none"
    /\ Prompting(t)
    /\ PreToolUse(t, toolName, toolArgs)
    /\ toolInv' = [toolInv EXCEPT ![i] =
                     [NoInv EXCEPT !.st = "pre", !.task = t, !.tool = toolName,
                                   !.args = toolArgs, !.preId = toolCallIds + 1,
                                   !.preStart = DateNow,
                                   !.decision = PreToolUseDecision(t, toolName, toolArgs)]]
    /\ UNCHANGED <<config, destroyOutcome, now, registryVars, call, ret, sd, executorVars, taskVars>>

\* The tool of invocation i has run and the SDK calls onPostToolUse (lines
\* 363-422) with the arguments of the invocation and the tool's result.
SdkPostToolUse(i, toolResult) ==
    LET t == toolInv[i].task
        n == toolInv[i].tool IN
    /\ toolInv[i].st = "pre"
    /\ toolInv[i].decision = "allow"
    /\ toolResult \in ResultsOf(i)
    /\ Prompting(t)
    /\ PostToolUse(t, n, toolInv[i].args, toolResult)
    /\ toolInv' = [toolInv EXCEPT ![i] =
                     [@ EXCEPT !.st = "post", !.result = toolResult,
                               !.found = Tracked(t, n).set,
                               !.published = PostToolUsePublishes(t, toolInv[i].args, toolResult),
                               !.outcome = IF PostToolUseRaises(t, toolInv[i].args, toolResult)
                                           THEN "raised" ELSE "null"]]
    /\ UNCHANGED <<config, destroyOutcome, now, registryVars, call, ret, sd, executorVars,
                   req, ex, nEvents, nCancels, signals>>

\* ------------------------------------------------------------------ Init

\* The settings the registry reads, the other fields at their defaults
\* (config/index.ts lines 243-264).
RegistryConfigs == [reuseByContext : BOOLEAN, ttl : TtlValues, streaming : {TRUE},
                    streamArtifactChunks : {FALSE}, cliUrl : {""}]
\* The settings the executor reads, the registry's at their defaults.
ExecutorConfigs == [reuseByContext : {TRUE}, ttl : {2}, streaming : BOOLEAN,
                    streamArtifactChunks : BOOLEAN, cliUrl : {"", "http://cli"}]

InitCommon ==
    /\ now = 0
    /\ nSessions = 0
    /\ sessCtx = [s \in Sids |-> ""]
    /\ sessMgr = [s \in Sids |-> 0]
    /\ destroyCalls = [s \in Sids |-> 0]
    /\ contextSessions = [m \in Mgrs |-> <<>>]
    /\ taskSessions = [m \in Mgrs |-> [t \in Procs |-> 0]]
    /\ cleanupTimer = [m \in Mgrs |-> FALSE]
    /\ activeTimers = [m \in Mgrs |-> 0]
    /\ call = [p \in Procs |-> NoCall]
    /\ ret = [p \in Procs |-> NoRet]
    /\ sd = NoSd
    /\ initialized = FALSE
    /\ client = FALSE
    /\ clientsCreated = 0
    /\ sessionManager = 0
    /\ mcpHooks = 0
    /\ mgrClient = [m \in Mgrs |-> FALSE]
    /\ boot = "idle"
    /\ hookCtx = [m \in Mgrs |-> NoCtx]
    /\ activeToolCalls = [m \in Mgrs |-> NoToolCalls]
    /\ toolCallIds = 0
    /\ toolInv = [i \in Invs |-> NoInv]
    /\ destroyOutcome = "none"
    /\ req = [t \in Procs |-> NoReq]
    /\ ex = [t \in Procs |-> NoEx]
    /\ bus = [t \in Procs |-> <<>>]
    /\ uuids = [t \in Procs |-> 0]
    /\ nEvents = [t \in Procs |-> 0]
    /\ nCancels = [t \in Procs |-> 0]
    /\ signals = [t \in Procs |-> <<>>]

\* A SessionManager constructed on its own (lines 33-37), used through its API.
InitRegistry ==
    /\ InitCommon
    /\ config \in RegistryConfigs
    /\ managersCreated = 1

NextRegistry ==
    \/ \E p \in Callers, c \in Contexts : CallGetOrCreate(p, 1, c)
    \/ \E p \in Callers, c \in Contexts : CallDestroySession(p, 1, c)
    \/ \E p \in Callers, ok \in BOOLEAN : DestroyDone(p, ok)
    \/ \E p \in Callers, ok \in BOOLEAN : GocCreateDone(p, ok)
    \/ StartCleanup(1)
    \/ CleanupTick(1)
    \/ CallShutdown(1)
    \/ \E ok \in BOOLEAN : ShutdownDestroyDone(ok)
    \/ Tick

SpecRegistry == InitRegistry /\ [][NextRegistry]_vars

\* A CopilotExecutor after construction (executor.ts lines 32-40).
Init ==
    /\ InitCommon
    /\ config \in ExecutorConfigs
    /\ managersCreated = 0

Next ==
    \/ \E t \in ExecTasks, c \in Contexts, h \in BOOLEAN : ExecuteInit(t, c, h)
    \/ \E t \in ExecTasks, ok \in BOOLEAN : ExecuteInitDone(t, ok)
    \/ \E t \in ExecTasks, c \in Contexts, h \in BOOLEAN : ExecuteReady(t, c, h)
    \/ \E t \in ExecTasks, c \in Contexts, h \in BOOLEAN : ExecuteNoManager(t, c, h)
    \/ \E t \in ExecTasks, ok \in BOOLEAN, msg \in Msgs : ExecuteCreateDone(t, ok, msg)
    \/ \E t \in ExecTasks, d \in DeltaContents : OnMessageDelta(t, d)
    \/ \E t \in ExecTasks, d \in ReasoningContents : OnReasoningDelta(t, d)
    \/ \E t \in ExecTasks, d \in {<<>>, <<"m">>} : OnMessage(t, d)
    \/ \E t \in ExecTasks, o \in {Absent, Some(<<>>), Some(<<"R">>)} : OnReasoning(t, o)
    \/ \E t \in ExecTasks, i \in {<<>>, <<"i">>} : OnIntent(t, i)
    \/ \E t \in ExecTasks, n \in Tools : OnToolExecutionStart(t, n)
    \/ \E t \in ExecTasks, m \in {<<>>, <<"progress">>} : OnToolExecutionProgress(t, m)
    \/ \E t \in ExecTasks, ok \in BOOLEAN : OnToolExecutionComplete(t, ok)
    \/ \E t \in ExecTasks : OnSubagentStarted(t)
    \/ \E t \in ExecTasks : OnSubagentCompleted(t)
    \/ \E t \in ExecTasks : OnSubagentFailed(t)
    \/ \E t \in ExecTasks, o \in {Absent, Some(MsgSdkTimeout)} : OnSessionError(t, o)
    \/ \E t \in ExecTasks : OnSessionIdle(t)
    \/ \E t \in ExecTasks : PromptTimeout(t)
    \/ \E t \in ExecTasks, msg \in Msgs : SendRejected(t, msg)
    \/ \E t \in ExecTasks : StreamSettled(t)
    \/ \E t \in ExecTasks, o \in ResponseContents : BufferedResponse(t, o)
    \/ \E t \in ExecTasks, msg \in Msgs : BufferedRejected(t, msg)
    \/ \E t \in ExecTasks : BufferedTimeout(t)
    \/ \E t \in ExecTasks : CancelTask(t)
    \/ \E t \in ExecTasks, n \in Tools : OnPreToolUse(t, n)
    \/ \E t \in ExecTasks, n \in Tools : OnPostToolUse(t, n)
    \/ CallInitialize
    \/ \E ok \in BOOLEAN : InitializeDone(ok)
    \/ CallExecutorShutdown
    \/ \E ok \in BOOLEAN : ExecutorShutdownDestroyDone(ok)
    \/ \E ok \in BOOLEAN : ClientStopDone(ok)

Spec == Init /\ [][Next]_vars

\* ------------------------------------------- two tasks, the clock, the sweep

\* Two requests served by one executor, each in its own context, while time
\* passes and the cleanup interval ticks.  The server has called initialize()
\* before it serves a request (createA2AServer).
TaskContext(t) == IF t = "t1" THEN "c1" ELSE "c2"
TasksConfigs == [reuseByContext : {TRUE}, ttl : {1}, streaming : BOOLEAN,
                 streamArtifactChunks : {FALSE}, cliUrl : {""}]

InitTasks ==
    /\ InitCommon
    /\ config \in TasksConfigs
    /\ managersCreated = 0

NextTasks ==
    \/ CallInitialize
    \/ InitializeDone(TRUE)
    \/ \E t \in Procs : ExecuteReady(t, TaskContext(t), TRUE)
    \/ \E t \in Procs, ok \in BOOLEAN : ExecuteCreateDone(t, ok, MsgEmpty)
    \/ \E t \in Procs, n \in Tools : OnPreToolUse(t, n)
    \/ \E t \in Procs, n \in Tools : OnPostToolUse(t, n)
    \/ \E t \in Procs : OnSessionIdle(t)
    \/ \E t \in Procs : StreamSettled(t)
    \/ \E t \in Procs : BufferedResponse(t, Some(<<"m">>))
    \/ CleanupTick(1)
    \/ Tick

SpecTasks == InitTasks /\ [][NextTasks]_vars

\* ------------------------------------------- the registry and its shutdown

\* A SessionManager whose callers register sessions for two contexts, start the
\* cleanup interval and shut the manager down.
ShutdownConfigs == [reuseByContext : BOOLEAN, ttl : {2}, streaming : {TRUE},
                    streamArtifactChunks : {FALSE}, cliUrl : {""}]

InitShutdown ==
    /\ InitCommon
    /\ config \in ShutdownConfigs
    /\ managersCreated = 1

NextShutdown ==
    \/ \E p \in Callers : CallGetOrCreate(p, 1, TaskContext(p))
    \/ \E p \in Callers, ok \in BOOLEAN : GocCreateDone(p, ok)
    \/ StartCleanup(1)
    \/ CallShutdown(1)
    \/ \E ok \in BOOLEAN : ShutdownDestroyDone(ok)

SpecShutdown == InitShutdown /\ [][NextShutdown]_vars

\* ------------------------------------------- tool invocations and hooks

\* Two requests whose sessions make tool calls: the SDK calls the hooks of each
\* invocation with the invocation's arguments and result, while time passes.
HooksConfigs == [reuseByContext : {TRUE}, ttl : {2}, streaming : {FALSE},
                 streamArtifactChunks : {FALSE}, cliUrl : {""}]

InitHooks ==
    /\ InitCommon
    /\ config \in HooksConfigs
    /\ managersCreated = 0

NextHooks ==
    \/ CallInitialize
    \/ InitializeDone(TRUE)
    \/ \E t \in Procs : ExecuteReady(t, TaskContext(t), TRUE)
    \/ \E t \in Procs : ExecuteCreateDone(t, TRUE, MsgEmpty)
    \/ \E t \in Procs : BufferedResponse(t, Some(<<"m">>))
    \/ \E i \in Invs : \E t \in Procs, n \in Tools, a \in ArgsOf(i) : SdkPreToolUse(i, t, n, a)
    \/ \E i \in Invs, r \in ResultPayloads \cup {ScenarioResult} : SdkPostToolUse(i, r)
    \/ Tick

SpecHooks == InitHooks /\ [][NextHooks]_vars


\* ------------------------------------------------------------ properties

\* execute() of task t is over.
Ended(t) == call[t].op = "execute" /\ call[t].st \in {"returned", "threw"}
\* Positions in an event log.
StatusIdx(b, states) ==
    {i \in 1..Len(b) : b[i].kind = "status-update" /\ b[i].state \in states}
FinalIdx(b) == {i \in 1..Len(b) : b[i].kind = "status-update" /\ b[i].final}
ArtifactIdx(b) == {i \in 1..Len(b) : b[i].kind = "artifact-update"}
ResponseIdx(b) == {i \in ArtifactIdx(b) : b[i].name = "response"}
\* The message contains "timeout", in any letter case.
ContainsTimeout(msg) == \E i \in 1..Len(msg) : LowerTok(msg[i]) = "timeout"
\* The log ends with the result artifact carrying text, Completed (final), finished().
EndsCompleted(b, text) ==
    /\ Len(b) >= 3
    /\ b[Len(b) - 2].kind = "artifact-update"
    /\ b[Len(b) - 2].name = "response"
    /\ b[Len(b) - 2].lastChunk
    /\ b[Len(b) - 2].text = text
    /\ b[Len(b) - 1].kind = "status-update"
    /\ b[Len(b) - 1].state = "completed"
    /\ b[Len(b) - 1].final
    /\ b[Len(b)].kind = "finished"
\* The log ends with Failed (final, with a non-empty message), finished().
EndsFailed(b) ==
    /\ Len(b) >= 2
    /\ b[Len(b) - 1].kind = "status-update"
    /\ b[Len(b) - 1].state = "failed"
    /\ b[Len(b) - 1].final
    /\ b[Len(b) - 1].message # <<>>
    /\ b[Len(b)].kind = "finished"
\* What a timed-out streaming prompt answers with, given the text accumulated.
PartialText(acc) == IF acc = <<>> THEN TimeoutText ELSE acc \o TruncationNotice
\* This step ends the streaming execute() of task t.
StreamEnds(t) == call[t].st = "streaming" /\ call'[t].st \in {"returned", "threw"}
NoIdleNoError(t) ==
    \A i \in 1..Len(signals[t]) : signals[t][i].kind \notin {"idle", "error"}
NoSendRejection(t) ==
    \A i \in 1..Len(signals[t]) : signals[t][i].kind # "sendReject"
\* A completion signal that is a timeout.
TimeoutSignal(s) ==
    IF s.kind = "timer" THEN TRUE
    ELSE s.kind \in {"error", "sendReject"} /\ ContainsTimeout(s.msg)
\* Sessions created for context c on which destroy() was never invoked.
Live(c) == {s \in 1..nSessions : sessCtx[s] = c /\ destroyCalls[s] = 0}

\* C1: no exception escapes execute(): every execute() call returns normally
\* (as stated by the claim; the code lets two exceptions out).
C1_NothingEscapes == \A t \in ExecTasks : call[t].st # "threw"

\* C2: for every finished execution (no cancelTask involved) the bus shows
\* Submitted exactly when the request carried no task, Working right after, then
\* exactly one Completed or Failed, which is final, is followed by finished() and
\* has every Working status before it (as stated by the claim).
C2_StatusSequence ==
    \A t \in ExecTasks : (Ended(t) /\ nCancels[t] = 0) =>
        LET b == bus[t]
            w == IF req[t].hasTask THEN 1 ELSE 2
            term == StatusIdx(b, {"completed", "failed"}) IN
        /\ Len(b) >= w
        /\ ~req[t].hasTask => (b[1].kind = "task" /\ b[1].state = "submitted")
        /\ \A i \in 1..Len(b) : b[i].kind = "task" => (i = 1 /\ ~req[t].hasTask)
        /\ b[w].kind = "status-update" /\ b[w].state = "working"
        /\ Cardinality(term) = 1
        /\ \A i \in term : b[i].final /\ i < Len(b) /\ b[i + 1].kind = "finished"
        /\ \A i \in term : \A j \in StatusIdx(b, {"working"}) : j < i

\* C3 as stated: a streaming execution whose session delivered neither
\* session.idle nor session.error ends with a Completed status and no Failed one.
C3_AsStated ==
    [][\A t \in ExecTasks : (StreamEnds(t) /\ NoIdleNoError(t)) =>
          /\ StatusIdx(bus'[t], {"completed"}) # {}
          /\ StatusIdx(bus'[t], {"failed"}) = {}]_vars

\* C3, amended: a streaming execution whose session delivered neither
\* session.idle nor session.error and whose send() did not reject was resolved
\* once, by the prompt timer alone, and ends Completed (never Failed) with the
\* text accumulated until then plus the truncation notice, or with the timeout
\* text when nothing had accumulated.
C3_TimeoutCompletes ==
    [][\A t \in ExecTasks : (StreamEnds(t) /\ NoIdleNoError(t) /\ NoSendRejection(t)) =>
          /\ signals[t] = <<[kind |-> "timer", msg |-> <<>>]>>
          /\ ex[t].done = "resolved"
          /\ ex[t].timer = "fired"
          /\ EndsCompleted(bus'[t], PartialText(ex[t].accumulatedText))
          /\ Cardinality(StatusIdx(bus'[t], {"completed"})) = 1
          /\ StatusIdx(bus'[t], {"failed"}) = {}]_vars

\* C3 witness: only the timer fired, after one delta, and the execution ended
\* Completed with the delta's text and the notice.
C3_Witness ==
    \E t \in ExecTasks :
        /\ Ended(t) /\ config.streaming
        /\ signals[t] = <<[kind |-> "timer", msg |-> <<>>]>>
        /\ EndsCompleted(bus[t], <<"a">> \o TruncationNotice)

C5_TimeoutNeverFails ==
    \A t \in ExecTasks :
        (Ended(t) /\ signals[t] # <<>> /\ TimeoutSignal(signals[t][1])) =>
            StatusIdx(bus[t], {"failed"}) = {}

\* C6: when cancelTask published Canceled before the execution published its
\* terminal status (the execution was in flight), the bus carries exactly one
\* final status-update (as stated by the claim).
C6_OneTerminal ==
    \A t \in ExecTasks :
        LET b == bus[t] IN
        (\E i \in StatusIdx(b, {"canceled"}) : \A j \in FinalIdx(b) : j >= i) =>
            Cardinality(FinalIdx(b)) = 1

C8_ReuseWithinTtl ==
    [][\A p \in Callers, c \in Contexts :
          (/\ CallGetOrCreate(p, 1, c)
           /\ config.reuseByContext
           /\ MapHas(contextSessions[1], c)
           /\ now - MapGet(contextSessions[1], c).createdAt < config.ttl) =>
             LET e == MapGet(contextSessions[1], c) IN
             /\ ret'[p] = [kind |-> "value", sessionId |-> e.sessionId, isNew |-> FALSE]
             /\ call'[p] = NoCall
             /\ nSessions' = nSessions
             /\ destroyCalls' = destroyCalls
             /\ Len(contextSessions'[1]) = Len(contextSessions[1])
             /\ \A i \in 1..Len(contextSessions[1]) :
                   contextSessions'[1][i] =
                     IF contextSessions[1][i].contextId = c
                     THEN [contextId |-> c, sessionId |-> e.sessionId,
                           createdAt |-> e.createdAt, lastUsed |-> now]
                     ELSE contextSessions[1][i]]_vars

\* C8 witness: a caller was handed the stored session with isNew=false at a time
\* later than the entry's creation.
C8_Witness ==
    \E p \in Callers, c \in Contexts :
        /\ config.reuseByContext
        /\ ret[p].kind = "value" /\ ~ret[p].isNew
        /\ MapHas(contextSessions[1], c)
        /\ MapGet(contextSessions[1], c).sessionId = ret[p].sessionId
        /\ MapGet(contextSessions[1], c).lastUsed > MapGet(contextSessions[1], c).createdAt

\* C9: while a getOrCreate(c) replaces an expired entry and only getOrCreate
\* calls and cleanup ticks overlap it, destroy() has been invoked exactly once on
\* the prior session (as stated by the claim).
C9_DestroyedOnce ==
    \A p \in Callers :
        (/\ call[p].op = "getOrCreate" /\ call[p].victim # 0
         /\ sd.st = "idle"
         /\ \A q \in Callers : call[q].op # "destroySession") =>
            destroyCalls[call[p].victim] = 1

\* C10: with reuse enabled, at most one session created for a contextId has not
\* had destroy() invoked on it (as stated by the claim).
C10_OneLivePerContext ==
    config.reuseByContext => \A c \in Contexts : Cardinality(Live(c)) <= 1

\* This step is getOrCreate(c) of caller p storing a newly created session.
GocStores(p) ==
    /\ call[p].op = "getOrCreate" /\ call[p].st = "creating"
    /\ call'[p] = NoCall
    /\ ret'[p].kind = "value" /\ ret'[p].isNew

\* C11: with reuse disabled, when getOrCreate(c) stores its newly created
\* session over an existing entry of c, destroy() has been invoked on the
\* session of that entry (as stated by the claim for the reuse-disabled case).
C11_ReplacedIsDestroyed ==
    [][\A p \in Callers :
          (/\ GocStores(p)
           /\ ~config.reuseByContext
           /\ MapHas(contextSessions[1], call[p].ctx)) =>
             destroyCalls'[MapGet(contextSessions[1], call[p].ctx).sessionId] >= 1]_vars

\* C12: once execute() of a task has returned, the task-to-session map of the
\* executor's session manager holds no entry for the task, whatever the outcome
\* and whether or not cancelTask was called meanwhile.
C12_Untracked ==
    \A t \in ExecTasks :
        (call[t].op = "execute" /\ call[t].st = "returned" /\ sessionManager # 0) =>
            taskSessions[sessionManager][t] = 0

\* C12 witness: an execution that had its session tracked and was cancelled
\* meanwhile has returned, and the map holds no entry for it.
C12_Witness ==
    \E t \in ExecTasks :
        /\ call[t].op = "execute" /\ call[t].st = "returned"
        /\ ex[t].sessionId # 0
        /\ nCancels[t] > 0
        /\ StatusIdx(bus[t], {"canceled"}) # {}
        /\ \A j \in StatusIdx(bus[t], {"completed", "failed"}) :
              \E i \in StatusIdx(bus[t], {"canceled"}) : i < j
        /\ sessionManager # 0
        /\ taskSessions[sessionManager][t] = 0

\* C13: once execute() of a task is over, none of its event subscriptions is
\* still registered and its prompt timer is no longer armed, in streaming and
\* in buffered mode alike (as stated by the claim; the buffered timer of line
\* 405 is never cleared).
C13_Released ==
    \A t \in ExecTasks :
        Ended(t) => (~ex[t].subscribed /\ ex[t].timer # "armed")

\* C14: every trace artifact emitted by the post-invocation hook for a tool call
\* of a task's session is published on that task's bus and carries that task's
\* taskId and contextId, the recorder's context being that task's (taskId,
\* contextId, trace id) while the task executes, also when another task starts
\* or finishes meanwhile (as stated by the claim; the recorder has one context
\* for all tasks).
C14_TraceCorrelated ==
    [][\A t \in Procs, n \in Tools : OnPostToolUse(t, n) =>
          /\ hookCtx[sessMgr[ex[t].sessionId]] = BoundCtx(t, req[t].contextId)
          /\ Len(bus'[t]) = Len(bus[t]) + 1
          /\ bus'[t][Len(bus'[t])].kind = "artifact-update"
          /\ bus'[t][Len(bus'[t])].name = "trace.mcp"
          /\ bus'[t][Len(bus'[t])].taskId = t
          /\ bus'[t][Len(bus'[t])].contextId = req[t].contextId
          /\ \A u \in Procs \ {t} : bus'[u] = bus[u]]_vars

\* C15: the sweep does not spare a session in use.  Whenever destroy() has been
\* invoked on the session of a task whose prompt is still in flight, the sweep
\* did it: more than the TTL has passed, destroy() was invoked once, the entry
\* is gone from the context map and the task still holds the session.  Such a
\* state is reachable (C15_Witness).
C15_SweptInFlight ==
    \A t \in Procs :
        (Prompting(t) /\ destroyCalls[ex[t].sessionId] > 0) =>
            /\ now > Ttl
            /\ destroyCalls[ex[t].sessionId] = 1
            /\ ~MapHas(contextSessions[1], req[t].contextId)
            /\ taskSessions[1][t] = ex[t].sessionId

\* C15 witness: a task is still awaiting its prompt on a session that the sweep
\* has destroyed and evicted.
C15_Witness ==
    \E t \in Procs :
        /\ Prompting(t)
        /\ cleanupTimer[1]
        /\ destroyCalls[ex[t].sessionId] = 1
        /\ ~MapHas(contextSessions[1], req[t].contextId)
        /\ taskSessions[1][t] = ex[t].sessionId

\* C16: a cleanup tick invokes destroy() once on the session of every entry
\* whose idle time (now - lastUsed) exceeds the TTL and removes that entry from
\* the context map; every other entry stays in the map as it was, no destroy()
\* is invoked on any other session, and the task map is unchanged.
C16_SweepExact ==
    [][CleanupTick(1) =>
          LET cs == contextSessions[1] IN
          /\ \A i \in 1..Len(cs) :
                IF now - cs[i].lastUsed > Ttl
                THEN /\ destroyCalls'[cs[i].sessionId] = destroyCalls[cs[i].sessionId] + 1
                     /\ ~MapHas(contextSessions'[1], cs[i].contextId)
                ELSE /\ destroyCalls'[cs[i].sessionId] = destroyCalls[cs[i].sessionId]
                     /\ MapHas(contextSessions'[1], cs[i].contextId)
                     /\ MapGet(contextSessions'[1], cs[i].contextId) = cs[i]
          /\ \A s \in Sids :
                (\A i \in 1..Len(cs) : cs[i].sessionId # s) =>
                    destroyCalls'[s] = destroyCalls[s]
          /\ Len(contextSessions'[1]) < Len(cs)
          /\ taskSessions' = taskSessions]_vars

\* C16 witness: of two registered entries the sweep has destroyed and evicted
\* the one idle for longer than the TTL and has left the younger one in place.
C16_Witness ==
    /\ nSessions = 2
    /\ destroyCalls[1] = 1
    /\ destroyCalls[2] = 0
    /\ Len(contextSessions[1]) = 1
    /\ contextSessions[1][1].sessionId = 2
    /\ now - contextSessions[1][1].lastUsed <= Ttl

\* This step belongs to shutdown() of the manager.
ShutdownStep == CallShutdown(1) \/ ShutdownDestroyDone(TRUE) \/ ShutdownDestroyDone(FALSE)

C18_AbsentIsNoOp ==
    [][\A p \in Callers, c \in Contexts :
          (CallDestroySession(p, 1, c) /\ ~MapHas(contextSessions[1], c)) =>
              /\ destroyCalls' = destroyCalls
              /\ contextSessions' = contextSessions
              /\ taskSessions' = taskSessions
              /\ call'[p] = NoCall
              /\ ret'[p].kind = "void"
              /\ UNCHANGED <<nSessions, sessCtx, sessMgr, cleanupTimer, activeTimers, sd>>]_vars

\* C18 witness: destroySession has returned for a context that never had an
\* entry: no session exists and no destroy() was invoked.
C18_Witness ==
    \E p \in Callers :
        /\ ret[p].kind = "void"
        /\ call[p] = NoCall
        /\ nSessions = 0
        /\ contextSessions[1] = <<>>
        /\ \A s \in Sids : destroyCalls[s] = 0

\* This step publishes the Completed status of task t.
Completes(t) == StatusIdx(bus'[t], {"completed"}) # StatusIdx(bus[t], {"completed"})

\* C19: the step that publishes Completed appends exactly three events to the
\* task's bus: the result artifact, the Completed status (final) and finished(),
\* in this order.  The artifact is named "response", has lastChunk=true and
\* carries the whole final text, which is not empty and begins with all the text
\* the handlers had accumulated; with chunking disabled it has append=false and
\* an id of its own, with chunking enabled append=true and the id of the
\* streamed chunks.  It is the only last-chunk response artifact on the bus.
C19_ResultThenCompleted ==
    [][\A t \in ExecTasks : Completes(t) =>
          LET b == bus'[t]
              n == Len(b)
              cc == ex[t].accumulatedText IN
          /\ n = Len(bus[t]) + 3
          /\ EndsCompleted(b, ex'[t].accumulatedText)
          /\ b[n - 2].text # <<>>
          /\ Len(cc) <= Len(b[n - 2].text)
          /\ SubSeq(b[n - 2].text, 1, Len(cc)) = cc
          /\ b[n - 2].append = config.streamArtifactChunks
          /\ IF config.streamArtifactChunks
             THEN b[n - 2].artifactId = ex[t].streamArtifactId
             ELSE /\ b[n - 2].artifactId # ex[t].streamArtifactId
                  /\ \A i \in ArtifactIdx(bus[t]) : bus[t][i].artifactId # b[n - 2].artifactId
          /\ {i \in ResponseIdx(b) : b[i].lastChunk} = {n - 2}
          /\ StatusIdx(b, {"completed"}) = {n - 1}]_vars

\* C19 witness: with chunking enabled a streaming execution that streamed the
\* chunk "a" has ended with the last-chunk marker of the same artifact carrying
\* "a", then Completed, then finished().
C19_Witness ==
    \E t \in ExecTasks :
        LET b == bus[t] IN
        /\ Ended(t) /\ config.streaming /\ config.streamArtifactChunks
        /\ EndsCompleted(b, <<"a">>)
        /\ b[Len(b) - 2].append
        /\ \E i \in 1..(Len(b) - 3) :
              /\ b[i].kind = "artifact-update" /\ b[i].append /\ ~b[i].lastChunk
              /\ b[i].artifactId = b[Len(b) - 2].artifactId
              /\ b[i].text = <<"a">>

\* This step ends a streaming execution of task t whose promise was resolved.
StreamCompletes(t) == StreamEnds(t) /\ ex[t].done = "resolved"

\* C20: a streaming execution whose completion was settled by a timeout (the
\* prompt timer, or a session.error or send() rejection naming a timeout)
\* publishes the text accumulated followed by the truncation notice, or the
\* timeout message when nothing was accumulated; one whose completion was
\* settled otherwise, with no text produced, publishes the no-response
\* placeholder (as stated by the claim).
C20_TimeoutText ==
    [][\A t \in ExecTasks : StreamCompletes(t) =>
          /\ signals[t] # <<>>
          /\ IF TimeoutSignal(signals[t][1])
             THEN EndsCompleted(bus'[t], PartialText(ex[t].accumulatedText))
             ELSE ex[t].accumulatedText = <<>> => EndsCompleted(bus'[t], NoResponseText)]_vars

\* Messages of the errors an execution can fail with.
ErrorMsgs == Msgs \cup {MsgTypeError, MsgSessionError}
\* The text the Failed status is to carry for an error with message msg.
FailureText(msg) ==
    IF config.cliUrl # "" /\ \E w \in {"ECONNREFUSED", "ENOTFOUND", "connect", "socket"} :
                                Includes(msg, w)
    THEN <<"Cannot", "reach", "GitHub", "Copilot", "CLI", "server", "at", config.cliUrl>>
    ELSE <<"Error:">> \o msg
\* This step ends execute() of task t without a Completed status: it failed.
Fails(t) ==
    /\ call[t].op \in {"none", "execute"}
    /\ call[t].st \notin {"returned", "threw"}
    /\ call'[t].st \in {"returned", "threw"}
    /\ StatusIdx(bus'[t], {"completed"}) = {}
\* Log b ends with Failed (final) carrying text, then finished().
EndsFailedWith(b, text) == EndsFailed(b) /\ b[Len(b) - 1].message = text

\* C21: every execution that fails ends with a Failed status (final=true)
\* followed by finished(); the status carries the server-unreachable message
\* naming the configured endpoint when the error's message matches a
\* connection pattern and an endpoint is configured, and "Error: <message>"
\* otherwise (as stated by the claim; an error of initialize() is not caught).
C21_FailedMessage ==
    [][\A t \in ExecTasks : Fails(t) =>
          /\ \E msg \in ErrorMsgs : EndsFailedWith(bus'[t], FailureText(msg))
          /\ ex[t].done = "rejected" => EndsFailedWith(bus'[t], FailureText(ex[t].error))]_vars

\* ---- tool payloads in the trace artifact

\* The post hook of invocation i runs in this step.
PostStep(i) == toolInv[i].st = "pre" /\ toolInv'[i].st = "post"
\* The bus the recorder of invocation i is bound to, and the artifact the post
\* hook of invocation i publishes in this step.
InvBus(i) == hookCtx[HooksOf(toolInv[i].task)].bus
PostArtifact(i) == bus'[InvBus(i)][Len(bus'[InvBus(i)])]

\* The spellings among Keys that match a sensitive key when case is ignored.
SensitiveSpellings == {"token", "Token", "PASSWORD"}

\* out is payload orig with the value of every sensitive key, at every depth of
\* objects and arrays, replaced by the redaction marker and nothing else changed.
RECURSIVE IsRedactionOf(_, _)
IsRedactionOf(out, orig) ==
    IF orig.t \in {"obj", "arr"}
    THEN /\ out.t = orig.t
         /\ Len(out.f) = Len(orig.f)
         /\ \A j \in DOMAIN orig.f :
              /\ out.f[j].k = orig.f[j].k
              /\ IF orig.t = "obj" /\ orig.f[j].k \in SensitiveSpellings
                 THEN out.f[j].v = Redacted
                 ELSE IsRedactionOf(out.f[j].v, orig.f[j].v)
    ELSE out = orig

\* The payload is a truncation product: a marker object or a cut string.
IsMarker(v) == v.t = "obj" /\ Len(v.f) = 3 /\ v.f[1].k = "_truncated"
IsCut(v) == IsMarker(v) \/ v.note > 0

\* C22: the arguments and the result a published trace artifact carries are,
\* when they were not truncated, the invocation's arguments and result with the
\* value of every key that matches a sensitive key case-insensitively replaced
\* by the redaction marker at every nesting depth and every other field
\* identical; arguments {q: "x", token: "abc"} appear as {q: "x", token:
\* "<redacted>"}.
C22_Redacted ==
    [][\A i \in Invs :
         (PostStep(i) /\ toolInv'[i].published) =>
            /\ ~IsCut(PostArtifact(i).data.arguments) =>
                  IsRedactionOf(PostArtifact(i).data.arguments, OrEmpty(toolInv[i].args))
            /\ ~IsCut(PostArtifact(i).data.result) =>
                  IsRedactionOf(PostArtifact(i).data.result, toolInv'[i].result)
            /\ toolInv[i].args = ScenarioArgs =>
                  PostArtifact(i).data.arguments =
                     Obj(<<Field("q", Str("x", 1)), Field("token", Redacted)>>)]_vars

\* A trace artifact with a redacted mixed-case key holding an object, a redacted
\* upper-case key inside an array, and one for the arguments {q, token}.
C22_Witness ==
    \E b \in Procs : \E j, k \in DOMAIN bus[b] :
        /\ bus[b][j].name = "trace.mcp"
        /\ bus[b][j].data.arguments =
             Obj(<<Field("Token", Redacted),
                   Field("items", Arr(<<Obj(<<Field("PASSWORD", Redacted)>>), Str("x", 1)>>))>>)
        /\ bus[b][k].name = "trace.mcp"
        /\ bus[b][k].data.arguments =
             Obj(<<Field("q", Str("x", 1)), Field("token", Redacted)>>)

\* The serialized size of a payload that has a JSON text.
Serializable(v) == Stringify(v) = "string"
SerializedSize(v) == JsonLength(v)
\* out is the marker object for a payload of serialized size size.
IsMarkerFor(out, size) ==
    /\ out.t = "obj" /\ Len(out.f) = 3
    /\ out.f[1] = Field("_truncated", True)
    /\ out.f[2] = Field("_original_size", Num(size))
    /\ out.f[3].k = "preview" /\ out.f[3].v.t = "str"
    /\ out.f[3].v.n <= MAX_DATA_SIZE /\ out.f[3].v.note = 0

\* C23 as stated: out is what truncate returns for payload x when x is returned
\* unchanged if its serialized size is within the ceiling and replaced by a
\* marker with a preview no longer than the ceiling if it exceeds the ceiling.
TruncatedAsClaimed(out, x) ==
    IF SerializedSize(x) <= MAX_DATA_SIZE THEN out = x
    ELSE IsMarkerFor(out, SerializedSize(x))

\* The amended statement: a string longer than the ceiling is cut to its first
\* MAX_DATA_SIZE characters followed by a note that states its length.
TruncatedAsCoded(out, x) ==
    IF x.t = "str" /\ x.n > MAX_DATA_SIZE
    THEN out = [x EXCEPT !.n = MAX_DATA_SIZE, !.note = x.n]
    ELSE TruncatedAsClaimed(out, x)

InvRecord(i) == activeToolCalls[HooksOf(toolInv[i].task)][ToolKey(toolInv[i].task, toolInv[i].tool)]

\* C24: the post hook of every invocation finds the record its own pre hook
\* created (nothing removed or replaced it before), removes it, so that no
\* record remains under the invocation's (sessionId, toolName), and reports the
\* call id and the start time its own pre hook recorded.
C24_OwnRecord ==
    [][\A i \in Invs : PostStep(i) =>
         /\ toolInv'[i].found
         /\ InvRecord(i).toolCallId = toolInv[i].preId
         /\ InvRecord(i).startTime = toolInv[i].preStart
         /\ ~InvRecord(i).set'
         /\ toolInv'[i].published =>
              /\ PostArtifact(i).data.toolCallId = toolInv[i].preId
              /\ PostArtifact(i).data.durationMs = DateNow - toolInv[i].preStart]_vars

\* What C25 states of the post hook of invocation i that runs in this step.
CompletesUntracked(i) ==
    LET h == HooksOf(toolInv[i].task)
        key == ToolKey(toolInv[i].task, toolInv[i].tool) IN
    /\ toolInv'[i].outcome = "null"
    /\ toolInv'[i].published
    /\ bus'[InvBus(i)] = Append(bus[InvBus(i)], PostArtifact(i))
    /\ PostArtifact(i).name = "trace.mcp"
    /\ PostArtifact(i).data.toolCallId > toolCallIds
    /\ PostArtifact(i).data.durationMs = 0
    /\ \A g \in DOMAIN activeToolCalls : \A k \in DOMAIN activeToolCalls[g] :
         (g # h \/ k # key) => activeToolCalls'[g][k] = activeToolCalls[g][k]

\* C25: a post hook that finds no record for its key completes normally: it
\* draws a fresh call id, reports a duration of zero, publishes exactly one
\* trace artifact and leaves the records of every other key unchanged.
C25_UntrackedCompletes ==
    [][\A i \in Invs : (PostStep(i) /\ ~toolInv'[i].found) => CompletesUntracked(i)]_vars

\* The same, for post hooks that run while a context is bound to the recorder
\* and whose result is not undefined.
C25_UntrackedCompletesBound ==
    [][\A i \in Invs :
         (PostStep(i) /\ ~toolInv'[i].found /\ hookCtx[HooksOf(toolInv[i].task)].set
            /\ toolInv'[i].result.t \notin {"undef", "cyc"})
         => CompletesUntracked(i)]_vars
\* The same, for post hooks that run while a context is bound to the recorder.
C25_UntrackedCompletesCtx ==
    [][\A i \in Invs :
         (PostStep(i) /\ ~toolInv'[i].found /\ hookCtx[HooksOf(toolInv[i].task)].set)
         => CompletesUntracked(i)]_vars
\* The same, for results that are JSON values.
C25_UntrackedCompletesJson ==
    [][\A i \in Invs :
         (PostStep(i) /\ ~toolInv'[i].found /\ toolInv'[i].result.t \notin {"undef", "cyc"})
         => CompletesUntracked(i)]_vars

\* The pre hook of invocation i runs in this step.
PreStep(i) == toolInv[i].st = "none" /\ toolInv'[i].st = "pre"

Placeholder == Str("\"<unserializable>\"", 18)

\* C27: a result that has no serialization (JSON.stringify throws on it) never
\* makes the post hook raise: the hook returns, and the trace artifact it
\* publishes carries the placeholder string in place of the result.
C27_Placeholder ==
    [][\A i \in Invs :
         (PostStep(i) /\ StringifyThrows(toolInv'[i].result)) =>
            /\ toolInv'[i].outcome = "null"
            /\ hookCtx[HooksOf(toolInv[i].task)].set =>
                 /\ toolInv'[i].published
                 /\ PostArtifact(i).data.result = Placeholder]_vars

\* The first half alone: the post hook returns on a result that holds a BigInt.
C27_BigIntReturns ==
    [][\A i \in Invs :
         (PostStep(i) /\ toolInv'[i].result = Obj(<<Field("q", BigInt)>>)) =>
            toolInv'[i].outcome = "null"]_vars

\* ---- artifact identifiers

\* The places of the artifact events on the buses.
ArtifactPlaces ==
    UNION { { <<b, j>> : j \in {k \in DOMAIN bus[b] : bus[b][k].kind = "artifact-update"} }
            : b \in Procs }
EventAt(p) == bus[p[1]][p[2]]

\* C28 (original statement): no two published artifact events carry the same
\* artifact identifier.
C28_FreshPerEvent ==
    \A p, q \in ArtifactPlaces : p # q => EventAt(p).artifactId # EventAt(q).artifactId

\* C28 (amended): two artifact events carry the same identifier only when they
\* are appended pieces (streamed chunks, last-chunk marker) of the response
\* artifact of one execution, of which at most one is the last chunk; every
\* artifact published whole (append = false) has an identifier that no other
\* artifact event carries.
C28_FreshPerArtifact ==
    \A p, q \in ArtifactPlaces :
        (p # q /\ EventAt(p).artifactId = EventAt(q).artifactId) =>
            /\ p[1] = q[1]
            /\ EventAt(p).append /\ EventAt(q).append
            /\ EventAt(p).name = "response" /\ EventAt(q).name = "response"
            /\ ~(EventAt(p).lastChunk /\ EventAt(q).lastChunk)

\* A streamed chunk and the last-chunk marker of the same execution are on the
\* bus, under one identifier.
C28_Witness ==
    \E p, q \in ArtifactPlaces :
        /\ p[1] = q[1] /\ p[2] < q[2]
        /\ EventAt(p).artifactId = EventAt(q).artifactId
        /\ ~EventAt(p).lastChunk /\ EventAt(q).lastChunk

\* ---- task and context identifiers of the outward events

\* C29: every event published on the bus of a task (statuses, artifacts, the
\* initial task, the Canceled status of cancelTask) carries that task's taskId
\* and that task's contextId.
C29_CarriesIds ==
    \A t \in Procs : \A j \in DOMAIN bus[t] :
        bus[t][j].kind # "finished" =>
            /\ bus[t][j].taskId = t
            /\ bus[t][j].contextId = req[t].contextId

\* The same, for every event except the Canceled status.
C29_CarriesIdsNotCanceled ==
    \A t \in Procs : \A j \in DOMAIN bus[t] :
        (bus[t][j].kind # "finished" /\ bus[t][j].state # "canceled") =>
            /\ bus[t][j].taskId = t
            /\ bus[t][j].contextId = req[t].contextId

\* ---- a destroy() that fails

\* C30: a session.destroy() that rejects is never propagated.  When the destroy
\* awaited by destroySession rejects, the entry is deleted and the call returns
\* normally; inside getOrCreate on an expired entry the call goes on to create
\* the new session.  When the destroy awaited by shutdown rejects, the entry is
\* deleted and the loop goes on to the next entry or returns normally with an
\* empty map.  The cleanup tick evicts every expired entry in the step that
\* invokes its destroy(), whose outcome it does not await, and touches no call.
C30_DestroyFailureSwallowed ==
    [][/\ \A p \in Callers : DestroyDone(p, FALSE) =>
            /\ ~MapHas(contextSessions'[call[p].mgr], call[p].ctx)
            /\ ret'[p].kind # "throw"
            /\ call[p].op = "destroySession" =>
                  (call'[p] = NoCall /\ ret'[p].kind = "void")
            /\ call[p].op = "getOrCreate" =>
                  (call'[p].op = "getOrCreate" /\ call'[p].st = "creating")
       /\ ShutdownDestroyDone(FALSE) =>
            /\ ~MapHas(contextSessions'[sd.mgr], sd.cur)
            /\ sd'.st \in {"destroying", "idle"}
            /\ sd'.st = "idle" => contextSessions'[sd.mgr] = <<>>
            /\ sd'.st = "destroying" => MapHas(contextSessions'[sd.mgr], sd'.cur)
       /\ CleanupTick(1) =>
            /\ \A i \in 1..Len(contextSessions'[1]) : ~SweepExpired(contextSessions'[1][i])
            /\ call' = call /\ ret' = ret /\ sd' = sd]_vars

\* The only destroy() invoked so far was awaited by a getOrCreate that found
\* its entry expired, and it rejected: the entry is gone and the call is
\* creating the new session.
C30_Witness ==
    /\ destroyOutcome = "rejected"
    /\ Cardinality({s \in Sids : destroyCalls[s] = 1}) = 1
    /\ \A s \in Sids : destroyCalls[s] <= 1
    /\ \E p \in Callers :
         /\ call[p].op = "getOrCreate" /\ call[p].st = "creating"
         /\ call[p].victim # 0
         /\ ~MapHas(contextSessions[call[p].mgr], call[p].ctx)

\* ---- streaming: subscriptions and the prompt

\* C31: in streaming mode, whenever the prompt has been sent and execute() waits
\* for completion, every handler is subscribed (the subscriptions were made
\* before send), so each session event emitted after send reaches its handler;
\* and completion does not depend on send's reply: once the promise is settled
\* execute() goes on, whether send() has replied or not.
C31_SubscribedBeforeSend ==
    \A t \in ExecTasks :
        (call[t].op = "execute" /\ call[t].st = "streaming") =>
            /\ ex[t].send # "none"
            /\ ex[t].subscribed
            /\ Subscribed(t)
            /\ ex[t].done # "pending" => ENABLED StreamSettled(t)

\* A streaming execution completed on session.idle while send() had not replied.
C31_Witness ==
    \E t \in ExecTasks :
        /\ config.streaming
        /\ Ended(t)
        /\ ex[t].send = "pending"
        /\ signals[t] = <<[kind |-> "idle", msg |-> <<>>]>>
        /\ \E j \in DOMAIN bus[t] : bus[t][j].state = "completed"

\* ---- streamed chunks

\* The event is a streaming chunk.
IsChunk(e) == e.kind = "artifact-update" /\ e.append /\ ~e.lastChunk
\* The event is a last-chunk marker.
IsMarkerEvent(e) == e.kind = "artifact-update" /\ e.append /\ e.lastChunk

NewEvents(t) == SubSeq(bus'[t], Len(bus[t]) + 1, Len(bus'[t]))
NewArtifacts(t) == SelectSeq(NewEvents(t), LAMBDA e : e.kind = "artifact-update")
Flags(e) == <<e.append, e.lastChunk>>

\* C33: each call of a publisher constructor appends exactly one event, with the
\* flags of its variant: the buffered (final) artifact append=false and
\* lastChunk=true, a streaming chunk append=true and lastChunk=false, the
\* last-chunk marker append=true and lastChunk=true, a data trace artifact
\* (trace.mcp) and a text trace artifact (trace.thought) append=false and
\* lastChunk=true.
C33_VariantFlags ==
    [][\A t \in ExecTasks :
         /\ SubSeq(bus'[t], 1, Len(bus[t])) = bus[t]
         /\ Len(NewArtifacts(t)) <= 1
         /\ \A d \in DeltaContents :
              (OnMessageDelta(t, d) /\ config.streamArtifactChunks /\ d # <<>>) =>
                 /\ Len(NewEvents(t)) = 1
                 /\ NewArtifacts(t) = NewEvents(t)
                 /\ Flags(NewEvents(t)[1]) = <<TRUE, FALSE>>
         /\ \A o \in {Some(<<"R">>)} : OnReasoning(t, o) =>
                 /\ Len(NewEvents(t)) = 1
                 /\ NewArtifacts(t) = NewEvents(t)
                 /\ NewEvents(t)[1].name = "trace.thought"
                 /\ Flags(NewEvents(t)[1]) = <<FALSE, TRUE>>
         /\ \A n \in Tools : (OnPostToolUse(t, n) /\ hookCtx[HooksOf(t)].set) =>
                 /\ Len(NewEvents(t)) = 1
                 /\ NewArtifacts(t) = NewEvents(t)
                 /\ NewEvents(t)[1].name = "trace.mcp"
                 /\ Flags(NewEvents(t)[1]) = <<FALSE, TRUE>>
         /\ Completes(t) =>
                 /\ Len(NewArtifacts(t)) = 1
                 /\ NewArtifacts(t)[1].name = "response"
                 /\ Flags(NewArtifacts(t)[1]) =
                      IF config.streamArtifactChunks THEN <<TRUE, TRUE>> ELSE <<FALSE, TRUE>>
         /\ \A j \in DOMAIN NewArtifacts(t) :
              NewArtifacts(t)[j].name # "response" =>
                 Flags(NewArtifacts(t)[j]) = <<FALSE, TRUE>>]_vars

\* A bus holds a data trace artifact and the buffered result artifact, each
\* whole and final.
C33_Witness ==
    \E t \in ExecTasks : \E j, k \in DOMAIN bus[t] :
        /\ bus[t][j].kind = "artifact-update" /\ bus[t][j].name = "trace.mcp"
        /\ Flags(bus[t][j]) = <<FALSE, TRUE>>
        /\ bus[t][k].kind = "artifact-update" /\ bus[t][k].name = "response"
        /\ Flags(bus[t][k]) = <<FALSE, TRUE>>

\* ---- the first completion signal settles the outcome

\* The first completion signal of task t, and whether it resolves the promise.
FirstSignal(t) == signals[t][1]
FirstResolves(t) == FirstSignal(t).kind \in {"idle", "timer"} \/ TimeoutSignal(FirstSignal(t))
\* finished() calls among the events this step appends to the bus of t.
NewFinished(t) == SelectSeq(NewEvents(t), LAMBDA e : e.kind = "finished")
\* Terminal statuses of execute() among the events this step appends.
NewTerminal(t) ==
    SelectSeq(NewEvents(t),
              LAMBDA e : e.kind = "status-update" /\ e.state \in {"completed", "failed"})
\* The text the result artifact is to carry when only the first signal counts.
SettledText(t) ==
    IF TimeoutSignal(FirstSignal(t)) THEN PartialText(ex[t].accumulatedText)
    ELSE IF ex[t].accumulatedText = <<>> THEN NoResponseText ELSE ex[t].accumulatedText

\* C34: a streaming execute() that waited for completion publishes exactly one
\* terminal status and calls finished() exactly once, and the first signal
\* settles the outcome: Completed when it is session.idle or a timeout, Failed
\* with its message when it is an error; signals that arrive later change
\* neither the terminal state nor the events published (as stated by the claim).
C34_FirstSignalSettles ==
    [][\A t \in ExecTasks : StreamEnds(t) =>
          /\ signals[t] # <<>>
          /\ Len(NewTerminal(t)) = 1
          /\ Len(NewFinished(t)) = 1
          /\ Cardinality(StatusIdx(bus'[t], {"completed", "failed"})) = 1
          /\ IF FirstResolves(t)
             THEN EndsCompleted(bus'[t], SettledText(t))
             ELSE EndsFailedWith(bus'[t], FailureText(FirstSignal(t).msg))]_vars

\* The part about the terminal state alone: one terminal status, one finished(),
\* Completed or Failed as the first signal decides.
C34_TerminalStateSettled ==
    [][\A t \in ExecTasks : StreamEnds(t) =>
          /\ signals[t] # <<>>
          /\ Len(NewTerminal(t)) = 1
          /\ Len(NewFinished(t)) = 1
          /\ Cardinality(StatusIdx(bus'[t], {"completed", "failed"})) = 1
          /\ IF FirstResolves(t)
             THEN NewTerminal(t)[1].state = "completed"
             ELSE EndsFailedWith(bus'[t], FailureText(FirstSignal(t).msg))]_vars

\* ---- after cancelTask

\* C35: once cancelTask has published Canceled and called finished() for a
\* task, nothing more is published on the task's bus: the execute() still
\* running for it publishes no further event and calls finished() no second
\* time (as stated by the claim).
C35_SilentAfterCancel ==
    \A t \in ExecTasks :
        \A i \in StatusIdx(bus[t], {"canceled"}) : Len(bus[t]) = i + 1

\* ---- a timeout that arrives after session.idle

\* C36: a streaming execution whose completion was settled by session.idle
\* publishes the accumulated text without the truncation notice, or the
\* no-response placeholder, never the timeout message, also when a
\* timeout-classified session.error or send() rejection arrives after the idle
\* signal and before the teardown (as stated by the claim).
C36_IdleTextUntouched ==
    [][\A t \in ExecTasks :
          (StreamCompletes(t) /\ signals[t] # <<>> /\ FirstSignal(t).kind = "idle") =>
             EndsCompleted(bus'[t],
                           IF ex[t].accumulatedText = <<>> THEN NoResponseText
                           ELSE ex[t].accumulatedText)]_vars

\* The same for executions in which nothing arrives after the idle signal.
C36_IdleAlone ==
    [][\A t \in ExecTasks :
          (StreamCompletes(t) /\ signals[t] = <<[kind |-> "idle", msg |-> <<>>]>>) =>
             EndsCompleted(bus'[t],
                           IF ex[t].accumulatedText = <<>> THEN NoResponseText
                           ELSE ex[t].accumulatedText)]_vars

\* ---- the final flag of status updates

\* C37: every published status-update whose state is working has final = false,
\* and every published status-update whose state is completed, failed or
\* canceled has final = true.
C37_FinalFlag ==
    \A t \in ExecTasks : \A i \in 1..Len(bus[t]) :
        bus[t][i].kind = "status-update" =>
            /\ bus[t][i].state \in {"working", "completed", "failed", "canceled"}
            /\ bus[t][i].final <=> bus[t][i].state \in {"completed", "failed", "canceled"}

\* Two progress updates, a cancellation and the end of execute() on one bus.
C37_Witness ==
    \E t \in ExecTasks :
        /\ Cardinality(StatusIdx(bus[t], {"working"})) >= 2
        /\ StatusIdx(bus[t], {"canceled"}) # {}
        /\ StatusIdx(bus[t], {"completed", "failed"}) # {}

\* ---- the session handed back by getOrCreate

\* The step in which getOrCreate hands a session to caller p.
Returns(p) ==
    \/ \E c \in Contexts : CallGetOrCreate(p, 1, c) /\ ret'[p].kind = "value"
    \/ GocCreateDone(p, TRUE)

\* A destroySession or getOrCreate call, or the shutdown loop, awaits destroy()
\* of the session registered for context c.
PendingDestroy(c) ==
    \/ \E q \in Callers : call[q].st = "destroying" /\ call[q].ctx = c
    \/ sd.st = "destroying" /\ sd.cur = c

\* C38: getOrCreate never returns a session whose destroy() has already been
\* invoked: across any interleaving with destroySession, cleanup ticks and
\* shutdown the session was live when it was returned (as stated by the claim).
C38_ReturnsLive ==
    [][\A p \in Callers : Returns(p) => destroyCalls'[ret'[p].sessionId] = 0]_vars

\* The same for calls made while no destroy() of the context's session is awaited.
C38_ReturnsLiveUnlessPending ==
    [][\A p \in Callers : \A c \in Contexts :
          (CallGetOrCreate(p, 1, c) /\ ret'[p].kind = "value" /\ ~PendingDestroy(c)) =>
              destroyCalls'[ret'[p].sessionId] = 0]_vars

\* A created session is live when it is returned.
C38_CreatedLive ==
    [][\A p \in Callers : GocCreateDone(p, TRUE) => destroyCalls'[ret'[p].sessionId] = 0]_vars

\* ---- executor shutdown overlapping an execution

\* A shutdown() of the executor has completed: the client it stopped is gone
\* (only the resolved client.stop() of line 103 clears this.client) and no
\* shutdown is in progress.
ShutdownCompleted == clientsCreated > 0 /\ ~client /\ sd = NoSd

\* execute() of task t is past initialize() and has not ended.
Running(t) ==
    call[t].op = "execute" /\ call[t].st \in {"creating", "destroying", "streaming", "buffered"}

\* A shutdown() has begun: its loop or client.stop() is awaited, or it has set
\* this.sessionManager to null.
ShutdownBegun == sd.st # "idle" \/ (managersCreated > 0 /\ sessionManager = 0)

\* Nothing is left once shutdown() has completed.
C39_NothingLeft ==
    ShutdownCompleted =>
        /\ \A s \in 1..nSessions : destroyCalls[s] > 0
        /\ \A m \in 1..managersCreated : activeTimers[m] = 0

\* An execute() that ends after a shutdown() has begun returns, with a terminal
\* status on its bus.
C39_OverlappedEnds ==
    [][\A t \in ExecTasks :
          (Running(t) /\ ~Running(t)' /\ ShutdownBegun) =>
             /\ call'[t].st = "returned"
             /\ StatusIdx(bus'[t], {"completed", "failed"}) # {}]_vars

\* C39: once the executor's shutdown() has completed, destroy() has been invoked
\* on every session the registry created and no cleanup timer is running, also
\* when the shutdown overlaps an execute() that is creating its session or
\* awaiting its prompt; that execute() ends with a terminal status and without
\* throwing (as stated by the claim).
C39_ShutdownLeavesNothing == []C39_NothingLeft /\ C39_OverlappedEnds

\* When the manager's shutdown loop ends, its map is empty and its timer is
\* cleared.
C39_LoopEndsClean ==
    [][(sessionManager # 0 /\ sessionManager' = 0) =>
          /\ contextSessions'[sessionManager] = <<>>
          /\ activeTimers'[sessionManager] = 0]_vars

\* ------------------------------------------- overlapping initialize() calls

\* initialize() is called, by createA2AServer or by execute() at line 197, while
\* this.initialized is false: lines 44-63, a client is constructed, stored in
\* this.client, and client.start() is awaited.
Initialize(p) ==
    /\ call[p] = NoCall
    /\ ~initialized
    /\ clientsCreated < MaxInits
    /\ client' = TRUE
    /\ clientsCreated' = clientsCreated + 1
    /\ call' = [call EXCEPT ![p] = [NoCall EXCEPT !.op = "initialize", !.st = "init"]]
    /\ ret' = [ret EXCEPT ![p] = NoRet]
    /\ UNCHANGED <<config, toolInv, destroyOutcome, now, registryVars, sd, initialized,
                   sessionManager, mcpHooks, mgrClient, boot, hookVars, taskVars>>

\* initialize() is called while this.initialized is true: line 45 returns.
InitializeAgain(p) ==
    /\ call[p] = NoCall
    /\ initialized
    /\ ret' = [ret EXCEPT ![p] = [NoRet EXCEPT !.kind = "void"]]
    /\ UNCHANGED <<config, toolInv, destroyOutcome, now, registryVars, call, sd, executorVars,
                   hookVars, taskVars>>

\* client.start() settles for caller p (lines 63-95).  Rejected: initialize
\* throws (lines 64-81).  Resolved: hooks and manager are constructed and stored,
\* the cleanup timer is started, this.initialized is set.
InitializeStarted(p, ok) ==
    /\ call[p].op = "initialize" /\ call[p].st = "init"
    /\ call' = [call EXCEPT ![p] = NoCall]
    /\ IF ok
       THEN /\ InitializedFields
            /\ ret' = [ret EXCEPT ![p] = [NoRet EXCEPT !.kind = "void"]]
       ELSE /\ ret' = [ret EXCEPT ![p] = [NoRet EXCEPT !.kind = "throw"]]
            /\ UNCHANGED <<managersCreated, mcpHooks, sessionManager, mgrClient, cleanupTimer,
                           activeTimers, initialized>>
    /\ UNCHANGED <<config, toolInv, destroyOutcome, now, nSessions, sessCtx, sessMgr, destroyCalls,
                   contextSessions, taskSessions, sd, client, clientsCreated, boot, hookVars,
                   taskVars>>

\* An executor after construction whose initialize() is called by several
\* callers; once a manager is stored the callers use it, time passes and the
\* cleanup intervals tick.
InitInitialize ==
    /\ InitCommon
    /\ config \in RegistryConfigs
    /\ managersCreated = 0

NextInitialize ==
    \/ \E p \in Callers : Initialize(p)
    \/ \E p \in Callers : InitializeAgain(p)
    \/ \E p \in Callers, ok \in BOOLEAN : InitializeStarted(p, ok)
    \/ \E p \in Callers, c \in Contexts : CallGetOrCreate(p, sessionManager, c)
    \/ \E p \in Callers, ok \in BOOLEAN : GocCreateDone(p, ok)
    \/ \E m \in Mgrs : CleanupTick(m)
    \/ Tick

SpecInitialize == InitInitialize /\ [][NextInitialize]_vars

\* initialize() calls awaiting client.start().
InitsInFlight == Cardinality({p \in Callers : call[p].op = "initialize"})
\* setInterval timers running.
TimersRunning == Cardinality({m \in Mgrs : activeTimers[m] > 0})

\* One client started or starting, one session manager, one cleanup timer.
C40_OneOfEach ==
    /\ InitsInFlight + managersCreated <= 1
    /\ TimersRunning <= 1

\* A call made after initialization succeeded changes nothing.
C40_LaterCallNoOp ==
    [][\A p \in Callers : InitializeAgain(p) =>
          UNCHANGED <<registryVars, executorVars, hookVars>>]_vars

\* C40: initialize() is idempotent under overlap: however many calls run before
\* the first has started its client, one client, one session manager and one
\* cleanup timer are created, and a call made after initialization succeeded
\* changes nothing (as stated by the claim).
C40_InitializedOnce == []C40_OneOfEach /\ C40_LaterCallNoOp
====
